---- MODULE Spec2Model ----
(***************************************************************************)
(* The guess game of the Send Telegram bot: the session state machine of   *)
(* Game.res (createGame / addPlayer / cancelGame) and the join aggregator  *)
(* of Index.res (handleGuessCommand, handleJoinGame, processPendingJoins,  *)
(* the /kill handler), for one conversation (chatId): every store of the   *)
(* bot is a map keyed by chatId and no handler reads another chat's entry. *)
(*                                                                         *)
(* Specifications:                                                         *)
(*   Spec        the bot's handlers on one chat, interleaved at awaits     *)
(*   SpecGame    the pure session functions applied to arbitrary players   *)
(*   SpecCreate  /guess from its arguments to createGame                   *)
(*   SpecKill    /guess and /kill by any participant                       *)
(*   SpecSurge   /guess with any stake and delay, and the surge store      *)
(*   SpecJoin    the join button, with the answer to the last tap          *)
(*   SpecResolve processPendingJoins await by await                        *)
(*   SpecRetry   the retry wrappers of Index.res and index.ts              *)
(*   SpecTs      the game of index.ts up to its winner                     *)
(*   SpecTsGuess /guess of index.ts with its surge data, and /kill         *)
(*   SpecTwin    two sessions that differ in the winning number alone      *)
(*   SpecRestart the handlers of Spec with every armed timer firing        *)
(*   SpecDelete  the delete queue of Index.res, for all chats              *)
(*   SpecDisplay the edits of the game message, call by call               *)
(*   SpecAnnounce games filled window by window, and their announcements   *)
(*   SpecTsDelete the delete queue of index.ts, for all chats              *)
(***************************************************************************)
EXTENDS Integers, Sequences, FiniteSets, TLC

VARIABLES
    \* ---- Index.res, one chat ----
    games,          \* games->Map.get(chatId): NoGame or a Game.state
    surges,         \* surges->Map.get(chatId): NoSurge or a Game.surge
    pendingJoins,   \* pendingJoins->Map.get(chatId): NoBatch or a pendingJoin
    timers,         \* armed, not yet fired setTimeout(processPendingJoins) of the chat
    now,            \* Date.now()
    guessTasks,     \* /guess handlers suspended in `await withRetry(reply)`
    nextMsg,        \* the id Telegram gives the next game message of the bot
    answers,        \* answerCbQuery calls issued so far, per callbackQueryId
    nextCb,         \* the next callback query id Telegram hands out
    joiners,        \* how many of the participants have tapped /join so far
    \* ---- history of the run (not read by any handler) ----
    gameCap,        \* the maxPlayers the game in the store was created with
    arrivals,       \* join taps of the current batch's window, in arrival order
    killedUpTo,     \* the last callback id that was pending when /kill cancelled a game
    \* ---- Game.res applied on its own (SpecGame) ----
    sess,           \* the session value under test
    sessCap,        \* the maxPlayers it was created with
    lastOp,         \* the last call: its arguments, the state before, its result
    \* ---- index.ts, one chat (SpecTs) ----
    tsGame,         \* the game object of the last /guess: activeGames entry or closure
    tsWinner,       \* the winner the batch callback announced, NoWinner before
    \* ---- withRetry on its own (SpecRetry) ----
    retry,          \* the running call of withRetry: its arguments, progress and outcome
    \* ---- processPendingJoins past its first await (SpecResolve) ----
    resolution,     \* the processPendingJoins task: where it is, what it admitted
    \* ---- index.ts, bot.command('guess') of one chat (SpecTsGuess) ----
    tsSurge,        \* chatSurgeData.get(chatId), or the default it is created from
    tsNow,          \* Date.now() of index.ts
    tsTasks,        \* /guess handlers suspended in `await ctx.reply`
    tsLast,         \* history: the last /guess, what it found and how many there were
    \* ---- a second run of the Game module beside the first (SpecTwin) ----
    twin,           \* the session of the second run
    \* ---- Index.res, the delete queue of all chats (SpecDelete) ----
    deleteQueue,              \* the array of delete tasks
    isProcessingDeleteQueue,  \* the flag drainDeleteQueue holds while it runs
    deleteQueueTimeout,       \* TRUE when the one-shot drain timer is armed
    drain,                    \* the drainDeleteQueue task: where it is, its task
    deleteCalls,              \* history: the deleteMessage calls issued, in order
    enqueuedWhen,             \* history: per task, what was going on at enqueueDelete
    \* ---- Index.res, the calls that show a session to the chat (SpecDisplay) ----
    displayTasks,   \* handlers suspended between their store update and their last call
    displayN,       \* how many such handlers there have been
    shown,          \* history: the editMessageText / sendMessage calls issued, in order
    \* ---- index.ts, the delete queue of all chats (SpecTsDelete) ----
    tsDeleteQueue,      \* deleteQueue
    isProcessingQueue,  \* the flag processDeleteQueue holds while it runs
    tsDrain,            \* the processDeleteQueue task: where it is, its batch
    tsDeleteCalls,      \* history: the deleteMessages / deleteMessage calls issued
    tsEnqueued          \* history: the tasks queueMessageDeletion has queued

vars == <<games, surges, pendingJoins, timers, now, guessTasks, nextMsg,
          answers, nextCb, joiners, gameCap, arrivals, killedUpTo,
          sess, sessCap, lastOp,
          tsGame, tsWinner, retry, resolution,
          tsSurge, tsNow, tsTasks, tsLast, twin,
          deleteQueue, isProcessingDeleteQueue, deleteQueueTimeout, drain,
          deleteCalls, enqueuedWhen,
          displayTasks, displayN, shown,
          tsDeleteQueue, isProcessingQueue, tsDrain, tsDeleteCalls, tsEnqueued>>

botVars == <<games, surges, pendingJoins, timers, now, guessTasks, nextMsg,
             answers, nextCb, joiners, gameCap, arrivals, killedUpTo>>

gameVars == <<sess, sessCap, lastOp>>

tsVars == <<tsGame, tsWinner>>

retryVars == <<retry>>

resolveVars == <<resolution>>

tsGuessVars == <<tsSurge, tsNow, tsTasks, tsLast>>

\* the variables of the specifications added after SpecResolve
twinVars == <<twin>>

deleteVars == <<deleteQueue, isProcessingDeleteQueue, deleteQueueTimeout, drain,
                deleteCalls, enqueuedWhen>>

\* the variables of the specifications added after SpecTwin
displayVars == <<displayTasks, displayN, shown>>

tsDeleteVars == <<tsDeleteQueue, isProcessingQueue, tsDrain, tsDeleteCalls, tsEnqueued>>

lateVars == <<deleteVars, displayVars, tsDeleteVars>>

moreVars == <<tsGuessVars, twinVars, lateVars>>

\* the variables of the other specifications, left alone by the bot of
\* Index.res and by the Game module
extVars == <<tsVars, retryVars, resolveVars, moreVars>>

-----------------------------------------------------------------------------
(* Program constants (Game.res)                                            *)

minPlayers == 3
maxPlayers == 20
minGuessAmount == 50
surgeCooldown == 60000
surgeIncrease == 50

(* Index.res: withRetry's default ~maxRetries                              *)
maxRetries == 3

-----------------------------------------------------------------------------
(* Bounds of the model                                                     *)

\* join taps (callback queries) in a run
MaxTaps == 4
\* /guess commands that create a game in a run
MaxGuess == 2

-----------------------------------------------------------------------------
(* Small helpers                                                           *)

\* Array.prototype.some
Some(s, P(_)) == \E i \in 1..Len(s) : P(s[i])

\* Array.prototype.indexOf, 1-based here; 0 when absent (JS: -1)
IndexOf(s, x) ==
    IF \E i \in 1..Len(s) : s[i] = x
    THEN CHOOSE i \in 1..Len(s) : s[i] = x /\ \A j \in 1..(i - 1) : s[j] # x
    ELSE 0

\* floor(Math.random() * n) for an integer n >= 1: any of 0 .. n-1
RandomBelow(n) == 0..(n - 1)

-----------------------------------------------------------------------------
(* Participants. A first_name is a sequence of characters; the sendtag is  *)
(* what follows the first "/" in it.                                       *)

Users == 1..5

UserFirstName(u) ==
    CASE u = 1 -> <<"a", "/", "x">>
      [] u = 2 -> <<"b", "/", "y", "!">>
      [] u = 3 -> <<"/", "z", "/", "q">>
      [] u = 4 -> <<"d", " ", "/", "w", "_">>
      [] OTHER -> <<"e", "/", "!", " ">>

\* the chat's administrators, as getChatAdministrators reports them
ChatAdmins == {1}

WordChars == {"a", "b", "d", "e", "q", "w", "x", "y", "z", "_"}

\* String.split(sep)
RECURSIVE Split(_, _)
Split(s, sep) ==
    IF \E i \in 1..Len(s) : s[i] = sep
    THEN LET i == CHOOSE k \in 1..Len(s) : s[k] = sep /\ \A j \in 1..(k - 1) : s[j] # sep
         IN  <<SubSeq(s, 1, i - 1)>> \o Split(SubSeq(s, i + 1, Len(s)), sep)
    ELSE <<s>>

\* String.trim
RECURSIVE Trim(_)
Trim(s) ==
    IF s = <<>> THEN s
    ELSE IF Head(s) = " " THEN Trim(Tail(s))
    ELSE IF s[Len(s)] = " " THEN Trim(SubSeq(s, 1, Len(s) - 1))
    ELSE s

\* nameParts[1] with [^a-zA-Z0-9_] removed, trimmed; <<>> is the empty string,
\* for which extractCleanSendtagFromUser answers None
CleanSendtag(firstName) ==
    LET nameParts  == Split(firstName, "/")
        rawSendtag == IF Len(nameParts) >= 2 THEN nameParts[2] ELSE <<>>
    IN  Trim(SelectSeq(rawSendtag, LAMBDA c : c \in WordChars))

HasSendtag(u) == CleanSendtag(UserFirstName(u)) # <<>>

-----------------------------------------------------------------------------
(* Game.res: the session state machine                                     *)

NoGame == [tag |-> "None"]
NoWinner == [tag |-> "None"]
NoRetry == [tag |-> "None"]
NoTask == [pc |-> "idle", kind |-> "none", finalState |-> NoGame,
           acks |-> "none", w |-> NoRetry]
NoSurge == [tag |-> "None"]
NoDelete == [chatId |-> 0, messageId |-> 0]

Cancelled(reason) == [tag |-> "Cancelled", reason |-> reason]

AdminCancelled(u) == [kind |-> "AdminCancelled", user |-> u]
MasterCancelled == [kind |-> "MasterCancelled", user |-> 0]
Expired == [kind |-> "Expired", user |-> 0]
GameError(msg) == [kind |-> "Error", user |-> 0, msg |-> msg]

\* a surge that never cools down
isSurgeActiveAlways(surge, t) == TRUE

\* Date.now() -. surge.updatedAt < surgeCooldown, with Date.now() = t
isSurgeActive(surge, t) == t - surge.updatedAt < surgeCooldown

\* floor(Math.random() *. maxPlayersFloat): Math.random() is in [0, 1)
WinningDraws(mp) == IF mp >= 1 THEN RandomBelow(mp) ELSE mp..0

\* createGame with the floored random product taken as the winning number,
\* without the + 1
createGameZeroBased(master, mp, baseAmount, surge, t, r) ==
    [tag           |-> "Collecting",
     winningNumber |-> r,
     players       |-> <<>>,
     amount        |-> baseAmount + (IF surge # NoSurge /\ isSurgeActive(surge, t)
                                     THEN surge.multiplier * surgeIncrease ELSE 0),
     baseAmount    |-> baseAmount,
     surgeAmount   |-> IF surge # NoSurge /\ isSurgeActive(surge, t)
                       THEN surge.multiplier * surgeIncrease ELSE 0,
     master        |-> master,
     maxPlayers    |-> mp,
     messageId     |-> 0]

\* createGame that takes the surge amount alone as the total
createGameSurgeOnly(master, mp, baseAmount, surge, t, r) ==
    LET surgeAmount == IF surge # NoSurge /\ isSurgeActive(surge, t)
                       THEN surge.multiplier * surgeIncrease
                       ELSE 0
    IN  [tag           |-> "Collecting",
         winningNumber |-> r + 1,
         players       |-> <<>>,
         amount        |-> surgeAmount,
         baseAmount    |-> baseAmount,
         surgeAmount   |-> surgeAmount,
         master        |-> master,
         maxPlayers    |-> mp,
         messageId     |-> 0]

\* createGame(chatId, master, ~maxPlayers, ~baseAmount, ~surge): r is the
\* floored random product, t is Date.now(); the chatId of the result pair is
\* the key the caller stores the state under
createGame(master, mp, baseAmount, surge, t, r) ==
    LET winningNumber == r + 1
        surgeAmount   == IF surge # NoSurge /\ isSurgeActive(surge, t)
                         THEN surge.multiplier * surgeIncrease
                         ELSE 0
        totalAmount   == baseAmount + surgeAmount
    IN  [tag           |-> "Collecting",
         winningNumber |-> winningNumber,
         players       |-> <<>>,
         amount        |-> totalAmount,
         baseAmount    |-> baseAmount,
         surgeAmount   |-> surgeAmount,
         master        |-> master,
         maxPlayers    |-> mp,
         messageId     |-> 0]

\* addPlayer that sets the winning number back to 1 on an admission that
\* leaves the session collecting
addPlayerResetsWinningNumber(state, player) ==
    IF state.tag = "Collecting"
    THEN LET players == Append(state.players, player)
         IN  IF Len(players) >= state.maxPlayers
             THEN IF state.winningNumber - 1 >= 0 /\ state.winningNumber - 1 < Len(players)
                  THEN [state |-> [tag           |-> "Completed",
                                   winningNumber |-> state.winningNumber,
                                   amount        |-> state.amount,
                                   baseAmount    |-> state.baseAmount,
                                   surgeAmount   |-> state.surgeAmount,
                                   master        |-> state.master,
                                   players       |-> players,
                                   winner        |-> players[state.winningNumber]],
                        pos   |-> IndexOf(players, player),
                        threw |-> FALSE]
                  ELSE [state |-> state, pos |-> 0, threw |-> TRUE]
             ELSE [state |-> [state EXCEPT !.players = players,
                                           !.winningNumber = 1],
                   pos   |-> IndexOf(players, player),
                   threw |-> FALSE]
    ELSE [state |-> state, pos |-> -1, threw |-> FALSE]

\* addPlayer that completes the session one player short of maxPlayers
addPlayerCompletesEarly(state, player) ==
    IF state.tag = "Collecting"
    THEN LET players == Append(state.players, player)
         IN  IF Len(players) >= state.maxPlayers - 1
             THEN IF state.winningNumber - 1 >= 0 /\ state.winningNumber - 1 < Len(players)
                  THEN [state |-> [tag           |-> "Completed",
                                   winningNumber |-> state.winningNumber,
                                   amount        |-> state.amount,
                                   baseAmount    |-> state.baseAmount,
                                   surgeAmount   |-> state.surgeAmount,
                                   master        |-> state.master,
                                   players       |-> players,
                                   winner        |-> players[state.winningNumber]],
                        pos   |-> IndexOf(players, player),
                        threw |-> FALSE]
                  ELSE [state |-> state, pos |-> 0, threw |-> TRUE]
             ELSE [state |-> [state EXCEPT !.players = players],
                   pos   |-> IndexOf(players, player),
                   threw |-> FALSE]
    ELSE [state |-> state, pos |-> -1, threw |-> FALSE]

\* addPlayer that completes the session only once the player list is longer
\* than maxPlayers
addPlayerOverCapacity(state, player) ==
    IF state.tag = "Collecting"
    THEN LET players == Append(state.players, player)
         IN  IF Len(players) > state.maxPlayers
             THEN [state |-> [tag           |-> "Completed",
                              winningNumber |-> state.winningNumber,
                              amount        |-> state.amount,
                              baseAmount    |-> state.baseAmount,
                              surgeAmount   |-> state.surgeAmount,
                              master        |-> state.master,
                              players       |-> players,
                              winner        |-> players[state.winningNumber]],
                   pos   |-> IndexOf(players, player),
                   threw |-> FALSE]
             ELSE [state |-> [state EXCEPT !.players = players],
                   pos   |-> IndexOf(players, player),
                   threw |-> FALSE]
    ELSE [state |-> state, pos |-> -1, threw |-> FALSE]

\* addPlayer with the winner taken at the 0-based index winningNumber, one
\* past the slot the draw names
addPlayerWinnerOffByOne(state, player) ==
    IF state.tag = "Collecting"
    THEN LET players == Append(state.players, player)
         IN  IF Len(players) >= state.maxPlayers
             THEN [state |-> [tag           |-> "Completed",
                              winningNumber |-> state.winningNumber,
                              amount        |-> state.amount,
                              baseAmount    |-> state.baseAmount,
                              surgeAmount   |-> state.surgeAmount,
                              master        |-> state.master,
                              players       |-> players,
                              winner        |-> players[(state.winningNumber % Len(players)) + 1]],
                   pos   |-> IndexOf(players, player),
                   threw |-> FALSE]
             ELSE [state |-> [state EXCEPT !.players = players],
                   pos   |-> IndexOf(players, player),
                   threw |-> FALSE]
    ELSE [state |-> state, pos |-> -1, threw |-> FALSE]

\* addPlayer(state, player): the new state, the position returned, and whether
\* the call threw failwith("Winner index out of bounds")
addPlayer(state, player) ==
    IF state.tag = "Collecting"
    THEN LET players == Append(state.players, player)
         IN  IF Len(players) >= state.maxPlayers
             THEN IF state.winningNumber - 1 >= 0 /\ state.winningNumber - 1 < Len(players)
                  THEN [state |-> [tag           |-> "Completed",
                                   winningNumber |-> state.winningNumber,
                                   amount        |-> state.amount,
                                   baseAmount    |-> state.baseAmount,
                                   surgeAmount   |-> state.surgeAmount,
                                   master        |-> state.master,
                                   players       |-> players,
                                   winner        |-> players[state.winningNumber]],
                        pos   |-> IndexOf(players, player),
                        threw |-> FALSE]
                  ELSE [state |-> state, pos |-> 0, threw |-> TRUE]
             ELSE [state |-> [state EXCEPT !.players = players],
                   pos   |-> IndexOf(players, player),
                   threw |-> FALSE]
    ELSE [state |-> state, pos |-> -1, threw |-> FALSE]

\* cancelGame that cancels whatever state it is given
cancelGameAnyState(state, reason) == Cancelled(reason)

\* cancelGame(state, reason)
cancelGame(state, reason) ==
    IF state.tag = "Collecting" THEN Cancelled(reason) ELSE state

IsTerminal(state) == state.tag \in {"Completed", "Cancelled"}

-----------------------------------------------------------------------------
(* Game.res, MessageFormat.res: the text of the game message. A text is a  *)
(* sequence of characters and of literal pieces of the template.           *)

Digit(d) == <<"0", "1", "2", "3", "4", "5", "6", "7", "8", "9">>[d + 1]

\* Int.toString, BigInt.toString
RECURSIVE IntToString(_)
IntToString(n) ==
    IF n < 0 THEN <<"-">> \o IntToString(-n)
    ELSE IF n < 10 THEN <<Digit(n)>>
    ELSE IntToString(n \div 10) \o <<Digit(n % 10)>>

\* formatAmount: a comma at every \B followed by a multiple of three digits
\* up to the end
RECURSIVE commas(_, _)
commas(digits, i) ==
    IF i > Len(digits) THEN <<>>
    ELSE (IF i > 1 /\ digits[i - 1] # "-" /\ (Len(digits) - i + 1) % 3 = 0
          THEN <<",">> ELSE <<>>)
         \o <<digits[i]>> \o commas(digits, i + 1)

formatAmount(amount) == commas(IntToString(amount), 1)

\* MessageFormat.escapeMarkdown: a backslash before each special character
\* (the backtick is written out as a word)
SpecialChars ==
    {"_", "*", "[", "]", "(", ")", "~", "backtick", ">", "#", "+", "-", "=", "|",
     "{", "}", ".", "!"}

RECURSIVE escapeMarkdown(_)
escapeMarkdown(text) ==
    IF text = <<>> THEN <<>>
    ELSE (IF Head(text) \in SpecialChars THEN <<"\\", Head(text)>> ELSE <<Head(text)>>)
         \o escapeMarkdown(Tail(text))

\* Array.join(sep) of texts
RECURSIVE JoinTexts(_, _)
JoinTexts(texts, sep) ==
    IF texts = <<>> THEN <<>>
    ELSE IF Len(texts) = 1 THEN texts[1]
    ELSE texts[1] \o <<sep>> \o JoinTexts(Tail(texts), sep)

\* the text of a cancelled game
cancelledText(reason) ==
    CASE reason.kind = "AdminCancelled" ->
             <<"Game killed by Admin ">> \o UserFirstName(reason.user)
      [] reason.kind = "MasterCancelled" -> <<"Game killed by creator">>
      [] reason.kind = "Expired" -> <<"Game expired">>
      [] OTHER -> <<"Game error: ", reason.msg>>

\* gameStateText that prints the winning number of a collecting game
gameStateTextShowsWinner(state) ==
    CASE state.tag = "Collecting" ->
             escapeMarkdown(UserFirstName(state.master))
                 \o <<" is sending ">> \o formatAmount(state.amount)
                 \o <<" SEND\n\n">> \o IntToString(state.winningNumber)
                 \o <<" / ">> \o IntToString(state.maxPlayers)
                 \o <<" players\n\n">>
      [] OTHER -> <<>>

\* gameStateText(state)
gameStateText(state) ==
    CASE state.tag = "Collecting" ->
             LET playerCount == Len(state.players)
                 masterName  == escapeMarkdown(UserFirstName(state.master))
                 playerList  ==
                     JoinTexts([i \in 1..playerCount |->
                                    escapeMarkdown(state.players[i].sendtag)], ", ")
                 surgeText   ==
                     IF state.surgeAmount > 0
                     THEN <<"\nSend Surge: ">>
                              \o IntToString(state.surgeAmount \div surgeIncrease)
                     ELSE <<>>
             IN  masterName
                     \o <<" is sending ">> \o formatAmount(state.amount)
                     \o <<" SEND\n\n">> \o IntToString(playerCount)
                     \o <<" / ">> \o IntToString(state.maxPlayers)
                     \o <<" players\n\n">> \o playerList \o surgeText
      [] state.tag = "Completed" ->
             <<"Winner\n\\# ">> \o IntToString(state.winningNumber)
                 \o <<" out of ">> \o IntToString(Len(state.players)) \o <<"\\!">>
      [] state.tag = "Cancelled" -> cancelledText(state.reason)
      [] OTHER -> <<"Initializing game...">>

-----------------------------------------------------------------------------
(* Command.res: parseGuessCommand. An argument is what Int.fromString makes *)
(* of it: a number, or nothing.                                            *)

Num(n) == [ok |-> TRUE, n |-> n]
NotNum == [ok |-> FALSE, n |-> 0]

\* Game.minPlayers + floor(Math.random() * range), d the floored product
randomMax(d) == minPlayers + d

\* parseGuessCommand that takes a first argument up to maxPlayers as the
\* number of players without raising it to minPlayers
parseGuessCommandNoClamp(args, randomMaxV) ==
    LET minInt == minGuessAmount
    IN  IF Len(args) = 0
        THEN [maxNumber |-> randomMaxV, baseAmount |-> minGuessAmount]
        ELSE IF ~args[1].ok
        THEN [maxNumber |-> randomMaxV, baseAmount |-> minGuessAmount]
        ELSE IF args[1].n <= maxPlayers
        THEN [maxNumber  |-> args[1].n,
              baseAmount |-> IF Len(args) >= 2 /\ args[2].ok /\ args[2].n >= minInt
                             THEN args[2].n
                             ELSE minGuessAmount]
        ELSE IF args[1].n >= minInt
        THEN [maxNumber |-> randomMaxV, baseAmount |-> args[1].n]
        ELSE [maxNumber |-> randomMaxV, baseAmount |-> minGuessAmount]

\* parseGuessCommand(args), randomMaxV the value drawn for randomMax
parseGuessCommand(args, randomMaxV) ==
    LET minInt == minGuessAmount
        maxN(n1) == IF n1 < minPlayers THEN minPlayers ELSE n1
    IN  IF Len(args) = 0
        THEN [maxNumber |-> randomMaxV, baseAmount |-> minGuessAmount]
        ELSE IF ~args[1].ok
        THEN [maxNumber |-> randomMaxV, baseAmount |-> minGuessAmount]
        ELSE IF args[1].n <= maxPlayers
        THEN [maxNumber  |-> maxN(args[1].n),
              baseAmount |-> IF Len(args) >= 2 /\ args[2].ok /\ args[2].n >= minInt
                             THEN args[2].n
                             ELSE minGuessAmount]
        ELSE IF args[1].n >= minInt
        THEN [maxNumber |-> randomMaxV, baseAmount |-> args[1].n]
        ELSE [maxNumber |-> randomMaxV, baseAmount |-> minGuessAmount]

-----------------------------------------------------------------------------
(* Index.res: the stores and the handlers, for one chat                    *)

NoBatch == [tag |-> "None"]

\* the Game.player handleJoinGame builds for a tap by u with query id cb
Player(u, cb) ==
    [sendtag         |-> <<"/">> \o CleanSendtag(UserFirstName(u)),
     userId          |-> u,
     callbackQueryId |-> cb]

\* processPendingJoins: players->Array.reduce([], ...) keeping, for each userId,
\* the first entry
RECURSIVE uniquePlayers(_, _)
uniquePlayers(players, acc) ==
    IF players = <<>> THEN acc
    ELSE LET player == Head(players)
         IN  uniquePlayers(Tail(players),
                           IF Some(acc, LAMBDA p : p.userId = player.userId)
                           THEN acc
                           ELSE Append(acc, player))

\* the reduce that ends at the candidate who completes the session and says
\* nothing of those behind
RECURSIVE admitAllUntilFull(_, _, _)
admitAllUntilFull(currentState, players, positions) ==
    IF players = <<>> \/ currentState.tag # "Collecting"
    THEN [state |-> currentState, positions |-> positions, threw |-> FALSE]
    ELSE LET r == addPlayer(currentState, Head(players))
         IN  IF r.threw
             THEN [state |-> currentState, positions |-> positions, threw |-> TRUE]
             ELSE admitAllUntilFull(r.state, Tail(players),
                                    Append(positions, [player |-> Head(players), pos |-> r.pos]))

\* processPendingJoins: uniquePlayers->Array.reduce(state, ...) through
\* Game.addPlayer, pushing (player, pos) on positions; threw when addPlayer did
RECURSIVE admitAll(_, _, _)
admitAll(currentState, players, positions) ==
    IF players = <<>>
    THEN [state |-> currentState, positions |-> positions, threw |-> FALSE]
    ELSE LET r == addPlayer(currentState, Head(players))
         IN  IF r.threw
             THEN [state |-> currentState, positions |-> positions, threw |-> TRUE]
             ELSE admitAll(r.state, Tail(players),
                           Append(positions, [player |-> Head(players), pos |-> r.pos]))

\* processPendingJoins: the text answered to one (player, position)
resultMessage(finalState, player, position) ==
    IF position > 0
    THEN IF finalState.tag = "Completed" /\ finalState.winner.userId = player.userId
         THEN [kind |-> "Won", n |-> 0]
         ELSE [kind |-> "Position", n |-> position]
    ELSE [kind |-> "Filled", n |-> 0]

\* Promise.all(positions->Array.map(... answerCbQuery ...)): one call each
RECURSIVE answerAll(_, _, _)
answerAll(ans, positions, finalState) ==
    IF positions = <<>> THEN ans
    ELSE LET e  == Head(positions)
             cb == e.player.callbackQueryId
         IN  answerAll([ans EXCEPT ![cb] = Append(@, resultMessage(finalState, e.player, e.pos))],
                       Tail(positions), finalState)

\* joinResult that answers a participant without sendtag as it answers a
\* tap on a game that is over
joinResultTagAsFull(game, pending, u) ==
    IF game.tag = "Collecting" /\ CleanSendtag(UserFirstName(u)) # <<>>
    THEN LET isAlreadyPending ==
                 pending # NoBatch /\ Some(pending.players, LAMBDA p : p.userId = u)
             isAlreadyInGame == Some(game.players, LAMBDA p : p.userId = u)
         IN  IF isAlreadyInGame \/ isAlreadyPending
             THEN [kind |-> "AlreadyJoined", n |-> 0]
             ELSE [kind |-> "Success",
                   n    |-> 1 + (IF pending = NoBatch THEN 0 ELSE Len(pending.players))]
    ELSE IF game = NoGame
    THEN [kind |-> "NoActiveGame", n |-> 0]
    ELSE [kind |-> "GameFull", n |-> 0]

\* joinResult without the isAlreadyInGame test
joinResultNoInGameCheck(game, pending, u) ==
    IF game.tag = "Collecting"
    THEN IF CleanSendtag(UserFirstName(u)) = <<>>
         THEN [kind |-> "NoSendTag", n |-> 0]
         ELSE IF pending # NoBatch /\ Some(pending.players, LAMBDA p : p.userId = u)
              THEN [kind |-> "AlreadyJoined", n |-> 0]
              ELSE [kind |-> "Success",
                    n    |-> 1 + (IF pending = NoBatch THEN 0 ELSE Len(pending.players))]
    ELSE IF game = NoGame
    THEN [kind |-> "NoActiveGame", n |-> 0]
    ELSE [kind |-> "GameFull", n |-> 0]

\* handleJoinGame: the joinResult of a tap by u, given the stores
joinResult(game, pending, u) ==
    IF game.tag = "Collecting"
    THEN IF CleanSendtag(UserFirstName(u)) = <<>>
         THEN [kind |-> "NoSendTag", n |-> 0]
         ELSE LET isAlreadyPending ==
                      pending # NoBatch /\ Some(pending.players, LAMBDA p : p.userId = u)
                  isAlreadyInGame == Some(game.players, LAMBDA p : p.userId = u)
              IN  IF isAlreadyInGame \/ isAlreadyPending
                  THEN [kind |-> "AlreadyJoined", n |-> 0]
                  ELSE [kind |-> "Success",
                        n    |-> 1 + (IF pending = NoBatch THEN 0 ELSE Len(pending.players))]
    ELSE IF game = NoGame
    THEN [kind |-> "NoActiveGame", n |-> 0]
    ELSE [kind |-> "GameFull", n |-> 0]

\* handleJoinGame: pendingJoins->Map.get(chatId)->Option.getOr({players: [], timeout: None})
pendingOrEmpty(pending) ==
    IF pending = NoBatch
    THEN [players |-> <<>>, timeout |-> FALSE]
    ELSE [players |-> pending.players, timeout |-> pending.timeout]

\* the new candidate put at the head of the batch
updatedPlayersPrepend(players, player) == <<player>> \o players

\* handleJoinGame: pendingJoin.players->Array.concat([player])
updatedPlayers(players, player) == Append(players, player)

\* a timer armed by every join
armTimeoutAlways(pendingJoin, armed) == armed + 1

\* handleJoinGame: the timeout kept (Some(t) => Some(t)) or armed (None =>
\* Some(setTimeout(...))), as the number of armed timers of the chat
armTimeout(pendingJoin, armed) == IF pendingJoin.timeout THEN armed ELSE armed + 1

\* the tap is one by a participant who is a candidate of the pending batch
IsRepeat(res, pending, u) ==
    /\ res.kind = "AlreadyJoined"
    /\ pending # NoBatch
    /\ Some(pending.players, LAMBDA p : p.userId = u)

\* the join_game action: handleJoinGame(ctx, query) for a tap by u. The query
\* ids of the taps that reach the pending batch, as a new candidate or as a
\* repeat of one, are told apart (1, 2, ...); the other taps are answered at
\* once and leave every store as it is.
\* Participants with a sendtag are interchangeable as joiners (no handler
\* compares a player with the master or an administrator), so the one who
\* taps first is called 1, the next new one 2, and so on.
JoinGame(u) ==
    LET res == joinResult(games, pendingJoins, u)
        cb  == nextCb
    IN  /\ IF res.kind = "Success" \/ IsRepeat(res, pendingJoins, u)
           THEN /\ nextCb <= MaxTaps
                /\ u <= joiners + 1
                /\ joiners' = IF u > joiners THEN u ELSE joiners
                /\ nextCb' = nextCb + 1
                /\ IF res.kind = "Success"
                   THEN LET pendingJoin == pendingOrEmpty(pendingJoins)
                        IN  /\ pendingJoins' =
                                   [tag     |-> "Some",
                                    players |-> updatedPlayers(pendingJoin.players, Player(u, cb)),
                                    timeout |-> TRUE]
                            /\ timers' = armTimeout(pendingJoin, timers)
                   ELSE UNCHANGED <<pendingJoins, timers>>
                /\ answers' = [answers EXCEPT ![cb] = Append(@, res)]
                /\ arrivals' = Append(arrivals, u)
           ELSE UNCHANGED <<pendingJoins, timers, answers, nextCb, joiners, arrivals>>
        /\ UNCHANGED <<games, gameCap, surges, now, guessTasks, nextMsg, killedUpTo>>

\* handleJoinGame as a step of the bot
HandleJoinGame(u) == JoinGame(u) /\ UNCHANGED <<gameVars, extVars>>

\* the timer armed by handleJoinGame fires: processPendingJoins(chatId), up to
\* its first await
ResolveBatch ==
    /\ timers > 0
    /\ timers' = timers - 1
    /\ IF pendingJoins # NoBatch /\ games.tag = "Collecting"
       THEN LET unique == uniquePlayers(pendingJoins.players, <<>>)
                r      == admitAll(games, unique, <<>>)
            IN  /\ pendingJoins' = NoBatch
                /\ arrivals' = <<>>
                /\ IF r.threw
                   THEN UNCHANGED <<games, answers>>
                   ELSE /\ games' = r.state
                        /\ answers' = answerAll(answers, r.positions, r.state)
       ELSE UNCHANGED <<pendingJoins, arrivals, games, answers>>
    /\ UNCHANGED <<gameCap, surges, now, guessTasks, nextMsg, nextCb, joiners,
                   killedUpTo>>

\* processPendingJoins as a step of the bot: what follows its first await
\* changes none of the stores
ProcessPendingJoins == ResolveBatch /\ UNCHANGED <<gameVars, extVars>>

\* what the /guess handler reads from its context: the arguments of the command
GuessArgs == {<<>>, <<Num(2)>>}

\* who sends /guess and who sends /kill
GuessUsers == {1, 5}
KillUsers == {1, 2}

\* Date.now() at a handler, as time elapsed since the last reading
ElapsedChoices == {1000}

\* floor(Math.random() * range) for the random number of players: the draws
\* taken here, out of RandomBelow(maxPlayers - minPlayers + 1)
PlayerDraws == {0}

\* floor(Math.random() * maxPlayers) in createGame for the i-th game of the
\* run: the draws taken here, out of WinningDraws(mp), a different one for
\* successive games
GameDraws(i, mp) == IF mp >= 1 THEN {(i - 1) % mp} ELSE WinningDraws(mp)

\* withRetry(fn) for the outcomes the transport gives the successive calls of
\* fn (TRUE: resolved): the index of the call that succeeded, 0 for
\* Error("Max retries exceeded")
RECURSIVE withRetry(_, _)
withRetry(outcomes, attempt) ==
    IF attempt >= maxRetries THEN 0
    ELSE IF outcomes[attempt + 1] THEN attempt + 1
    ELSE withRetry(outcomes, attempt + 1)

\* what the transport does to the successive calls of ctx.reply: the first
\* k - 1 calls fail and the later ones succeed, k = maxRetries + 1 being the
\* reply that never gets through
ReplyOutcomes == {[i \in 1..maxRetries |-> i >= k] : k \in 1..(maxRetries + 1)}

\* handleGuessCommand up to `await withRetry(reply)`: u sent "/guess args"; when
\* it creates a game Date.now() = now + dt, d is the draw of randomMax and r
\* the draw of createGame. The reply to the i-th creating /guess is message i.
GuessCommand(u, args, d, dt) ==
    /\ IF ~HasSendtag(u) \/ games.tag = "Collecting"
       THEN \* the sendtag reminder, or an edit of the game message: no store
            \* changes, and the clock is not read
            UNCHANGED <<games, gameCap, surges, guessTasks, nextMsg, now>>
       ELSE /\ nextMsg <= MaxGuess
            /\ now' = now + dt
            /\ nextMsg' = nextMsg + 1
            /\ \E r \in GameDraws(nextMsg, parseGuessCommand(args, randomMax(d)).maxNumber) :
               LET parsed      == parseGuessCommand(args, randomMax(d))
                   prevSurge   == surges
                   surgeAmount == IF prevSurge # NoSurge /\ isSurgeActive(prevSurge, now')
                                  THEN prevSurge.multiplier * surgeIncrease
                                  ELSE 0
                   currentMin  == minGuessAmount + surgeAmount
                   requested   == parsed.baseAmount
                   applySurge  == requested < currentMin
                   finalBase   == IF requested >= currentMin THEN requested ELSE minGuessAmount
                   finalSurge  == IF applySurge THEN prevSurge ELSE NoSurge
                   mp          == parsed.maxNumber
                   newState    == createGame(u, mp, finalBase, finalSurge, now', r)
               IN  /\ surges' = IF applySurge
                                THEN IF prevSurge # NoSurge /\ isSurgeActive(prevSurge, now')
                                     THEN [multiplier |-> prevSurge.multiplier + 1,
                                           updatedAt  |-> now']
                                     ELSE [multiplier |-> 1, updatedAt |-> now']
                                ELSE surges
                   /\ games' = newState
                   /\ gameCap' = mp
                   /\ guessTasks' = guessTasks \cup {[id |-> nextMsg, newState |-> newState]}
    /\ UNCHANGED <<pendingJoins, timers, answers, nextCb, joiners,
                   arrivals, killedUpTo>>

\* handleGuessCommand as a step of the bot
HandleGuessCommand(u, args, d, dt) ==
    GuessCommand(u, args, d, dt) /\ UNCHANGED <<gameVars, extVars>>

\* handleGuessCommand after `await withRetry(reply)`, for the suspended handler
\* task: Ok(message) stores the message id with the state the handler created;
\* Error(e) stores nothing
GuessReply(task, outcomes) ==
    /\ task \in guessTasks
    /\ guessTasks' = guessTasks \ {task}
    /\ IF withRetry(outcomes, 0) > 0
       THEN /\ games' = [task.newState EXCEPT !.messageId = task.id]
            /\ gameCap' = task.newState.maxPlayers
       ELSE UNCHANGED <<games, gameCap>>
    /\ UNCHANGED <<surges, pendingJoins, timers, now, nextMsg, answers, nextCb,
                   joiners, arrivals, killedUpTo>>

\* the rest of handleGuessCommand as a step of the bot
GuessReplied(task, outcomes) ==
    GuessReply(task, outcomes) /\ UNCHANGED <<gameVars, extVars>>

\* AdminUtils.getAdminIds(ctx, chatId): the cached ids, or the ids the transport
\* reports, which are cached for cacheTimeout. The chat's administrators do
\* not change in a run, so both are ChatAdmins and the cache is not a variable.
getAdminIds == ChatAdmins

\* the /kill handler up to `await withRetry(editMessageTextL)`, u the sender
KillCommand(u) ==
    /\ IF ~HasSendtag(u)
       THEN UNCHANGED <<games, killedUpTo>>
       ELSE LET isAdmin == u \in getAdminIds
            IN  IF isAdmin /\ games.tag = "Collecting"
                THEN /\ games' = cancelGame(games, AdminCancelled(u))
                     /\ killedUpTo' =
                            IF pendingJoins = NoBatch THEN killedUpTo
                            ELSE pendingJoins.players[Len(pendingJoins.players)].callbackQueryId
                ELSE UNCHANGED <<games, killedUpTo>>
    /\ UNCHANGED <<gameCap, surges, pendingJoins, timers, now, guessTasks, nextMsg,
                   answers, nextCb, joiners, arrivals>>

\* the /kill handler as a step of the bot
HandleKill(u) == KillCommand(u) /\ UNCHANGED <<gameVars, extVars>>

-----------------------------------------------------------------------------
Init ==
    /\ games = NoGame
    /\ gameCap = 0
    /\ surges = NoSurge
    /\ pendingJoins = NoBatch
    /\ timers = 0
    /\ now = 0
    /\ guessTasks = {}
    /\ nextMsg = 1
    /\ answers = [cb \in 1..MaxTaps |-> <<>>]
    /\ nextCb = 1
    /\ joiners = 0
    /\ arrivals = <<>>
    /\ killedUpTo = 0
    /\ sess = NoGame
    /\ sessCap = 0
    /\ lastOp = [op |-> "none"]
    /\ tsGame = NoGame
    /\ tsWinner = NoWinner
    /\ retry = NoRetry
    /\ resolution = NoTask
    /\ tsSurge = [lastTimestamp |-> 0, multiplier |-> 0]
    /\ tsNow = surgeCooldown
    /\ tsTasks = {}
    /\ tsLast = [op |-> "none", n |-> 0]
    /\ twin = NoGame
    /\ deleteQueue = <<>>
    /\ isProcessingDeleteQueue = FALSE
    /\ deleteQueueTimeout = FALSE
    /\ drain = [pc |-> "idle", task |-> NoDelete]
    /\ deleteCalls = <<>>
    /\ enqueuedWhen = <<>>
    /\ displayTasks = {}
    /\ displayN = 0
    /\ shown = <<>>
    /\ tsDeleteQueue = <<>>
    /\ isProcessingQueue = FALSE
    /\ tsDrain = [pc |-> "idle", batch |-> <<>>, i |-> 0, w |-> NoRetry]
    /\ tsDeleteCalls = <<>>
    /\ tsEnqueued = {}

Next ==
    \/ \E u \in GuessUsers, args \in GuessArgs, d \in PlayerDraws, dt \in ElapsedChoices :
           HandleGuessCommand(u, args, d, dt)
    \/ \E task \in guessTasks, outcomes \in ReplyOutcomes :
           GuessReplied(task, outcomes)
    \/ \E u \in Users : HandleJoinGame(u)
    \/ ProcessPendingJoins
    \/ \E u \in KillUsers : HandleKill(u)

Spec == Init /\ [][Next]_vars


----------------------------------------------------------------------------
(* The bot with any participant as the one who starts the game: /guess, its  *)
(* late reply, and /kill.                                                    *)

NextKill ==
    \/ \E u \in Users, args \in GuessArgs, d \in PlayerDraws, dt \in ElapsedChoices :
           HandleGuessCommand(u, args, d, dt)
    \/ \E task \in guessTasks, outcomes \in ReplyOutcomes :
           GuessReplied(task, outcomes)
    \/ \E u \in Users : HandleKill(u)

SpecKill == Init /\ [][NextKill]_vars

----------------------------------------------------------------------------
(* The bot with its timer: the handlers of Spec with /guess and /kill sent   *)
(* by the administrator and two participants at the join button, and every   *)
(* armed timer firing in the end (weak fairness of processPendingJoins).     *)

\* the participants who tap the join button here
RestartJoiners == {1, 2}

NextRestart ==
    \/ \E args \in GuessArgs, d \in PlayerDraws, dt \in ElapsedChoices :
           HandleGuessCommand(1, args, d, dt)
    \/ \E task \in guessTasks, outcomes \in ReplyOutcomes :
           GuessReplied(task, outcomes)
    \/ \E u \in RestartJoiners : HandleJoinGame(u)
    \/ ProcessPendingJoins
    \/ HandleKill(1)

\* weak fairness of processPendingJoins: the action is enabled exactly when a
\* timer of the chat is armed, and every step of it takes one timer away
TimersFire == WF_vars(ProcessPendingJoins)

SpecRestart ==
    /\ Init
    /\ [][NextRestart]_vars
    /\ TimersFire

----------------------------------------------------------------------------
(* The Game module on its own: createGame, addPlayer and cancelGame applied  *)
(* in any order to one session, with any arguments out of small sets.        *)

\* the largest capacity a session is created with here
MaxCap == 3

\* the capacities given to createGame (it validates none)
SessCaps == (-1)..MaxCap

\* the players given to addPlayer: two identities, each with two query ids
SessPlayers == {Player(u, cb) : u \in 1..2, cb \in 1..2}

\* the surge state and the clock given to createGame
SessSurges == {NoSurge, [tag |-> "Some", updatedAt |-> 0, multiplier |-> 2]}
SessClocks == {surgeCooldown - 1, surgeCooldown}

\* the reasons given to cancelGame
SessReasons == {AdminCancelled(1), MasterCancelled, Expired, GameError("x")}

GCreateGame(mp, surge, t, r) ==
    /\ sess' = createGame(1, mp, minGuessAmount, surge, t, r)
    /\ sessCap' = mp
    /\ lastOp' = [op |-> "createGame", surge |-> surge, t |-> t]
    /\ UNCHANGED <<botVars, extVars>>

GAddPlayer(player) ==
    /\ sess # NoGame
    /\ LET r == addPlayer(sess, player)
       IN  /\ sess' = IF r.threw THEN sess ELSE r.state
           /\ lastOp' = [op |-> "addPlayer", before |-> sess, player |-> player,
                         pos |-> r.pos, threw |-> r.threw]
    /\ UNCHANGED <<sessCap, botVars, extVars>>

GCancelGame(reason) ==
    /\ sess # NoGame
    /\ sess' = cancelGame(sess, reason)
    /\ lastOp' = [op |-> "cancelGame", before |-> sess, reason |-> reason]
    /\ UNCHANGED <<sessCap, botVars, extVars>>

NextGame ==
    \/ \E mp \in SessCaps, surge \in SessSurges, t \in SessClocks :
          \E r \in WinningDraws(mp) : GCreateGame(mp, surge, t, r)
    \/ \E player \in SessPlayers : GAddPlayer(player)
    \/ \E reason \in SessReasons : GCancelGame(reason)

SpecGame == Init /\ [][NextGame]_vars

----------------------------------------------------------------------------
(* Two runs of a game side by side that differ in the winning number alone:  *)
(* the same createGame arguments with two random draws, then the same        *)
(* batches resolved by the reduce of processPendingJoins on both. The        *)
(* history keeps what each run shows: the text of the game message and the   *)
(* answers to the candidates of the batch.                                   *)

\* the candidates one batch brings, at most
TwinBatchSizes == 1..2

\* the capacities of the two sessions
TwinCaps == 2..MaxCap

\* the answers of processPendingJoins to the candidates of a resolved batch
batchAnswers(r) ==
    [i \in 1..Len(r.positions) |->
        resultMessage(r.state, r.positions[i].player, r.positions[i].pos)]

TwinCreate(mp, surge, t, r1, r2) ==
    /\ sess' = createGame(1, mp, minGuessAmount, surge, t, r1)
    /\ twin' = createGame(1, mp, minGuessAmount, surge, t, r2)
    /\ sessCap' = mp
    /\ lastOp' = [op       |-> "create",
                  text     |-> gameStateText(sess'),
                  twinText |-> gameStateText(twin'),
                  acks     |-> <<>>,
                  twinAcks |-> <<>>]
    /\ UNCHANGED <<botVars, tsVars, retryVars, resolveVars, tsGuessVars, lateVars>>

\* a batch of n new candidates is resolved in both runs
TwinBatch(n) ==
    /\ sess.tag = "Collecting"
    /\ LET first  == Len(sess.players)
           batch  == [i \in 1..n |-> Player(first + i, first + i)]
           r      == admitAll(sess, batch, <<>>)
           rTwin  == admitAll(twin, batch, <<>>)
       IN  /\ ~r.threw /\ ~rTwin.threw
           /\ sess' = r.state
           /\ twin' = rTwin.state
           /\ lastOp' = [op       |-> "batch",
                         text     |-> gameStateText(r.state),
                         twinText |-> gameStateText(rTwin.state),
                         acks     |-> batchAnswers(r),
                         twinAcks |-> batchAnswers(rTwin)]
    /\ UNCHANGED <<sessCap, botVars, tsVars, retryVars, resolveVars, tsGuessVars,
                   lateVars>>

NextTwin ==
    \/ \E mp \in TwinCaps, surge \in SessSurges, t \in SessClocks :
          \E r1 \in WinningDraws(mp), r2 \in WinningDraws(mp) :
              TwinCreate(mp, surge, t, r1, r2)
    \/ \E n \in TwinBatchSizes : TwinBatch(n)

SpecTwin == Init /\ [][NextTwin]_vars

----------------------------------------------------------------------------
(* The surge of one chat: /guess with any stake, soon or long after the last *)
(* one, and /kill by an admin to end the game between two /guess.            *)

\* the argument lists of /guess: no stake, a stake below the minimum, stakes
\* above it
SurgeArgs == {<<>>, <<Num(3), Num(49)>>, <<Num(70)>>, <<Num(3), Num(150)>>}

\* time elapsed between two readings of Date.now(): inside and past
\* surgeCooldown
SurgeElapsed == {1000, surgeCooldown + 1}

\* the multiplier handleGuessCommand reads for the chat: that of the stored
\* surge, 0 when there is none
Multiplier(surge) == IF surge = NoSurge THEN 0 ELSE surge.multiplier

\* handleGuessCommand, with the arguments and the surge it found kept as
\* history
SurgeGuess(u, args, d, dt) ==
    /\ GuessCommand(u, args, d, dt)
    /\ lastOp' = [op        |-> "guess",
                  args      |-> args,
                  created   |-> nextMsg' # nextMsg,
                  elapsed   |-> dt,
                  prevSurge |-> surges,
                  nth       |-> nextMsg]
    /\ UNCHANGED <<sess, sessCap, extVars>>

SurgeKill(u) ==
    /\ games.tag = "Collecting"
    /\ HandleKill(u)

NextSurge ==
    \/ \E args \in SurgeArgs, dt \in SurgeElapsed : SurgeGuess(1, args, 0, dt)
    \/ \E u \in ChatAdmins : SurgeKill(u)

SpecSurge == Init /\ [][NextSurge]_vars

----------------------------------------------------------------------------
(* The join button of one chat: taps by any participant, before a game, on a *)
(* game that collects and after it, with the answer to the last tap kept as  *)
(* history.                                                                  *)

\* handleJoinGame for a tap by u: the history keeps who tapped, the query id
\* of the tap, the joinResult that was answered and the stores the tap found
JoinTap(u) ==
    /\ JoinGame(u)
    /\ lastOp' = [op      |-> "join",
                  user    |-> u,
                  cb      |-> nextCb,
                  result  |-> joinResult(games, pendingJoins, u),
                  game    |-> games,
                  pending |-> pendingJoins,
                  timers  |-> timers]
    /\ UNCHANGED <<sess, sessCap, extVars>>

\* a step of another handler: the history forgets the tap
JoinOther(A) ==
    /\ A
    /\ lastOp' = [op |-> "other"]
    /\ UNCHANGED <<sess, sessCap, extVars>>

NextJoin ==
    \/ \E u \in Users : JoinTap(u)
    \/ JoinOther(GuessCommand(1, <<>>, 0, 1000))
    \/ JoinOther(ResolveBatch)

SpecJoin == Init /\ [][NextJoin]_vars

----------------------------------------------------------------------------
(* The creation of a session by /guess on its own: Command.parseGuessCommand *)
(* and Game.createGame for any arguments and any random draws, with no       *)
(* surge stored for the chat.                                                *)

\* the numbers given as arguments of /guess
ArgNumbers == {-1, 0, 2, 3, 19, 20, 21, 49, 50, 70}

\* the argument lists of /guess: none, one or two arguments, numbers or not
CreateArgs ==
    {<<>>, <<NotNum>>}
        \cup {<<Num(n)>> : n \in ArgNumbers}
        \cup {<<Num(n), a>> : n \in {2, 19, 70}, a \in {NotNum, Num(49), Num(70)}}

\* handleGuessCommand from Command.fromContext to Game.createGame, for a chat
\* with no game and no surge: d is the draw of randomMax, r the draw of
\* createGame; the history keeps whether the first argument was a number
\* below minPlayers
GuessCreates(args, d, r) ==
    LET parsed    == parseGuessCommand(args, randomMax(d))
        requested == parsed.baseAmount
        finalBase == IF requested >= minGuessAmount THEN requested ELSE minGuessAmount
        finalSurge == NoSurge
    IN  /\ sess' = createGame(1, parsed.maxNumber, finalBase, finalSurge, 0, r)
        /\ sessCap' = parsed.maxNumber
        /\ lastOp' = [op    |-> "guess",
                      below |-> Len(args) >= 1 /\ args[1].ok /\ args[1].n < minPlayers]
        /\ UNCHANGED <<botVars, extVars>>

NextCreate ==
    \E args \in CreateArgs, d \in RandomBelow(maxPlayers - minPlayers + 1) :
        \E r \in WinningDraws(parseGuessCommand(args, randomMax(d)).maxNumber) :
            GuessCreates(args, d, r)

SpecCreate == Init /\ [][NextCreate]_vars

----------------------------------------------------------------------------
(* index.ts: the game object of one chat from /guess to the winner the batch *)
(* callback of join_game announces.                                          *)

\* the largest number of players a game of index.ts is created with here
TsMaxCap == 5

\* maxNumber of /guess: minNumber (3) or more
TsCaps == minPlayers..TsMaxCap

\* the candidates one batch brings, at most
TsBatchSizes == 1..2

\* what fetchProfile returns: a profile, "InvalidTag", or null
ProfileResults == {"Profile", "InvalidTag", "null"}

\* the i-th participant to be admitted
TsPlayer(i) == [userId |-> i]

\* bot.command('guess') with no active game: maxNumber mp, r the floored
\* random product of the winning number
TsGuess(mp, r) ==
    /\ IF tsGame = NoGame THEN TRUE ELSE ~(tsGame.active)
    /\ tsGame' = [tag           |-> "Game",
                  winningNumber |-> r + 1,
                  players       |-> <<>>,
                  maxNumber     |-> mp,
                  active        |-> TRUE]
    /\ tsWinner' = NoWinner
    /\ UNCHANGED <<botVars, gameVars, retryVars, resolveVars, moreVars>>

\* the winner the callback settles on: the player at game.winningNumber, or,
\* when the profile lookup of that player says "InvalidTag", the player at a
\* newly drawn number (r2 its floored random product)
tsPickWinner(game, profile1, r2) ==
    IF profile1 = "InvalidTag"
    THEN game.players[r2 + 1]
    ELSE game.players[game.winningNumber]

\* the setTimeout callback of bot.action('join_game') for a batch of n
\* candidates who are not yet players: profile1 and profile2 are what the
\* lookups return, r2 is the second draw
TsBatchFires(n, profile1, r2, profile2) ==
    /\ tsGame # NoGame
    /\ tsGame.active
    /\ LET availableSlots == tsGame.maxNumber - Len(tsGame.players)
           admitted       == IF n < availableSlots THEN n ELSE availableSlots
           newPlayers     == [i \in 1..admitted |-> TsPlayer(Len(tsGame.players) + i)]
           game           == [tsGame EXCEPT !.players = @ \o newPlayers]
       IN  IF Len(game.players) >= game.maxNumber
           THEN /\ tsGame' = [game EXCEPT !.active = FALSE]
                /\ tsWinner' = [tag     |-> "Some",
                                winner  |-> tsPickWinner(game, profile1, r2),
                                profile |-> IF profile1 = "InvalidTag"
                                            THEN profile2 = "Profile"
                                            ELSE profile1 = "Profile"]
           ELSE /\ tsGame' = game
                /\ UNCHANGED tsWinner
    /\ UNCHANGED <<botVars, gameVars, retryVars, resolveVars, moreVars>>

NextTs ==
    \/ \E mp \in TsCaps : \E r \in RandomBelow(mp) : TsGuess(mp, r)
    \/ \E n \in TsBatchSizes, profile1 \in ProfileResults, profile2 \in ProfileResults :
          \E r2 \in RandomBelow(IF tsGame = NoGame THEN 1 ELSE tsGame.maxNumber) :
              TsBatchFires(n, profile1, r2, profile2)

SpecTs == Init /\ [][NextTs]_vars

----------------------------------------------------------------------------
(* index.ts: bot.command('guess') of one chat with its surge data, split at  *)
(* `await ctx.reply`, and bot.command('kill') by the game master or an       *)
(* admin.                                                                    *)

\* /guess commands of index.ts in a run
MaxTsGuess == 3

\* the arguments after "/guess", as parseInt reads them
TsGuessArgs == {<<>>, <<Num(70)>>, <<Num(3), Num(120)>>}

\* Date.now() at /guess, as time elapsed since the last reading: inside and
\* past SURGE_COOLDOWN
TsElapsed == {1000, surgeCooldown + 1}

\* activeGames.get(chatId) is an entry
tsHasGame == IF tsGame = NoGame THEN FALSE ELSE tsGame.active

\* the surge data that counts a /guess also while a game is active
tsSurgeUpdateIgnoresGame(surge, hasGame, t) ==
    IF t - surge.lastTimestamp < surgeCooldown
    THEN [lastTimestamp |-> t, multiplier |-> surge.multiplier + 1]
    ELSE IF hasGame
    THEN [surge EXCEPT !.lastTimestamp = t]
    ELSE [lastTimestamp |-> t, multiplier |-> 0]

\* the surge data that is never reset to 0
tsSurgeUpdateNoReset(surge, hasGame, t) ==
    IF ~hasGame
    THEN [lastTimestamp |-> t, multiplier |-> surge.multiplier + 1]
    ELSE [surge EXCEPT !.lastTimestamp = t]

\* the surge data /guess stores: surge is what the map held (or the default),
\* hasGame whether the chat has an entry in activeGames, t = Date.now()
tsSurgeUpdate(surge, hasGame, t) ==
    IF ~hasGame /\ t - surge.lastTimestamp < surgeCooldown
    THEN [lastTimestamp |-> t, multiplier |-> surge.multiplier + 1]
    ELSE IF hasGame
    THEN [surge EXCEPT !.lastTimestamp = t]
    ELSE [lastTimestamp |-> t, multiplier |-> 0]

\* the amount /guess settles on for the arguments and currentMinAmount
tsGuessAmount(args, currentMinAmount) ==
    IF Len(args) >= 1 /\ args[1].ok
    THEN IF args[1].n >= currentMinAmount THEN args[1].n
         ELSE IF /\ args[1].n <= maxPlayers
                 /\ Len(args) >= 2
                 /\ args[2].ok
                 /\ args[2].n >= currentMinAmount
              THEN args[2].n
              ELSE currentMinAmount
    ELSE currentMinAmount

\* maxNumber of /guess: d is floor(Math.random() * 17)
tsGuessMaxNumber(args, currentMinAmount, d) ==
    IF /\ Len(args) >= 1
       /\ args[1].ok
       /\ args[1].n < currentMinAmount
       /\ args[1].n <= maxPlayers
    THEN IF args[1].n < minPlayers THEN minPlayers ELSE args[1].n
    ELSE d + minPlayers

\* bot.command('guess') up to `await ctx.reply`: dt the time since the last
\* reading of the clock, d and r the floored random products
TsGuessStart(args, dt, d, r) ==
    /\ tsLast.n < MaxTsGuess
    /\ tsNow' = tsNow + dt
    /\ LET surgeData        == tsSurgeUpdate(tsSurge, tsHasGame, tsNow')
           currentMinAmount == minGuessAmount + surgeData.multiplier * surgeIncrease
           maxNumber        == tsGuessMaxNumber(args, currentMinAmount, d)
       IN  /\ tsSurge' = surgeData
           /\ tsTasks' =
                 IF tsHasGame
                 THEN tsTasks
                 ELSE tsTasks \cup
                      {[id   |-> tsLast.n + 1,
                        game |-> [tag           |-> "Game",
                                  id            |-> tsLast.n + 1,
                                  winningNumber |-> r + 1,
                                  players       |-> <<>>,
                                  maxNumber     |-> maxNumber,
                                  amount        |-> tsGuessAmount(args, currentMinAmount),
                                  active        |-> TRUE]]}
    /\ tsLast' = [op      |-> "guess",
                  n       |-> tsLast.n + 1,
                  prev    |-> tsSurge.multiplier,
                  elapsed |-> tsNow' - tsSurge.lastTimestamp,
                  hadGame |-> tsHasGame]
    /\ UNCHANGED <<botVars, gameVars, tsVars, retryVars, resolveVars, twinVars,
                   lateVars>>

\* bot.command('guess') after `await ctx.reply`: activeGames.set when the
\* message was sent, the error reply when it was not
TsGuessReplied(task, sent) ==
    /\ task \in tsTasks
    /\ tsTasks' = tsTasks \ {task}
    /\ IF sent
       THEN /\ tsGame' = task.game
            /\ tsWinner' = NoWinner
       ELSE UNCHANGED tsVars
    /\ tsLast' = [op |-> "replied", n |-> tsLast.n]
    /\ UNCHANGED <<tsSurge, tsNow>>
    /\ UNCHANGED <<botVars, gameVars, retryVars, resolveVars, twinVars, lateVars>>

\* bot.command('kill') sent by the game master or an admin: activeGames.delete
TsKill ==
    /\ tsHasGame
    /\ tsGame' = [tsGame EXCEPT !.active = FALSE]
    /\ tsLast' = [op |-> "kill", n |-> tsLast.n]
    /\ UNCHANGED <<tsWinner, tsSurge, tsNow, tsTasks>>
    /\ UNCHANGED <<botVars, gameVars, retryVars, resolveVars, twinVars, lateVars>>

NextTsGuess ==
    \/ \E args \in TsGuessArgs, dt \in TsElapsed :
          TsGuessStart(args, dt, 0, 0)
    \/ \E task \in tsTasks, sent \in BOOLEAN : TsGuessReplied(task, sent)
    \/ TsKill

SpecTsGuess == Init /\ [][NextTsGuess]_vars

----------------------------------------------------------------------------
(* The retry wrappers on their own: withRetry of Index.res and withRetry of  *)
(* index.ts, one call of the wrapped function per step, for any maxRetries   *)
(* and any outcomes of the transport. Delays are in units of initialDelay.   *)

\* the largest maxRetries argument given here (the default is maxRetries = 3)
MaxRetriesArg == 4

RetryArgs == 0..MaxRetriesArg

\* what one call of the wrapped function does: it resolves, or it rejects with
\* a generic error, "message to edit not found", "message is not modified",
\* or error_code 429
TransportOutcomes == {"ok", "error", "notfound", "notmodified", "429"}

\* parameters.retry_after of a 429, in seconds; 0 when it is absent
RetryAfters == {0, 2}

RECURSIVE Pow2(_)
Pow2(n) == IF n <= 0 THEN 1 ELSE 2 * Pow2(n - 1)

\* sleep(initialDelay * 2 ** (attempt - 1)) before every call but the first
backoff(attempt) == IF attempt > 0 THEN Pow2(attempt - 1) ELSE 0

\* a call of withRetry(fn, ~maxRetries = mr) of impl "res" (Index.res) or "ts"
\* (index.ts) begins; with mr <= 0 it is over at once, without a call of fn
startRetry(impl, mr) ==
    [tag        |-> "Some",
     impl       |-> impl,
     maxRetries |-> mr,
     attempt    |-> 0,
     calls      |-> 0,
     okAt       |-> 0,
     slept      |-> 0,
     result     |-> IF mr > 0 THEN "pending" ELSE IF impl = "res" THEN "Error" ELSE "Throw"]

\* withRetry that gives up only once attempt + 1 exceeds maxRetries
resRetryStepOneMore(w, outcome, retryAfter) ==
    LET called == [w EXCEPT !.calls = @ + 1, !.slept = @ + backoff(w.attempt)]
    IN  IF outcome = "ok"
        THEN [called EXCEPT !.result = "Ok", !.okAt = called.calls]
        ELSE [called EXCEPT !.attempt = @ + 1,
                            !.result = IF w.attempt + 1 > w.maxRetries
                                       THEN "Error" ELSE "pending"]

\* withRetry that throws once the retries are used up, as the wrapper of
\* index.ts does
resRetryStepThrows(w, outcome, retryAfter) ==
    LET called == [w EXCEPT !.calls = @ + 1, !.slept = @ + backoff(w.attempt)]
    IN  IF outcome = "ok"
        THEN [called EXCEPT !.result = "Ok", !.okAt = called.calls]
        ELSE [called EXCEPT !.attempt = @ + 1,
                            !.result = IF w.attempt + 1 >= w.maxRetries
                                       THEN "Throw" ELSE "pending"]

\* Index.res withRetry, one pass with attempt < maxRetries: sleep, call fn,
\* Ok(value) when it resolves; any exception leads to withRetry(attempt + 1),
\* which is Error("Max retries exceeded") once attempt + 1 >= maxRetries
resRetryStep(w, outcome, retryAfter) ==
    LET called == [w EXCEPT !.calls = @ + 1, !.slept = @ + backoff(w.attempt)]
    IN  IF outcome = "ok"
        THEN [called EXCEPT !.result = "Ok", !.okAt = called.calls]
        ELSE [called EXCEPT !.attempt = @ + 1,
                            !.result = IF w.attempt + 1 >= w.maxRetries
                                       THEN "Error" ELSE "pending"]

\* index.ts withRetry, one iteration i = attempt < maxRetries of the loop
tsRetryStep(w, outcome, retryAfter) ==
    LET called == [w EXCEPT !.calls = @ + 1, !.slept = @ + backoff(w.attempt)]
        next   == [called EXCEPT !.attempt = @ + 1,
                                 !.result = IF w.attempt + 1 >= w.maxRetries
                                            THEN "Throw" ELSE "pending"]
    IN  CASE outcome = "ok"          -> [called EXCEPT !.result = "Ok", !.okAt = called.calls]
          [] outcome = "notfound"    -> [called EXCEPT !.result = "Throw"]
          [] outcome = "notmodified" -> [called EXCEPT !.result = "Ok"]
          [] outcome = "429"         ->
                 [next EXCEPT !.slept = @ + (IF retryAfter = 0 THEN 1 ELSE retryAfter)]
          [] OTHER                   -> next

RetryStart(impl, mr) ==
    /\ IF retry = NoRetry THEN TRUE ELSE retry.result # "pending"
    /\ retry' = startRetry(impl, mr)
    /\ UNCHANGED <<botVars, gameVars, tsVars, resolveVars, moreVars>>

RetryCall(outcome, retryAfter) ==
    /\ retry # NoRetry
    /\ retry.result = "pending"
    /\ retry' = IF retry.impl = "res"
                THEN resRetryStep(retry, outcome, retryAfter)
                ELSE tsRetryStep(retry, outcome, retryAfter)
    /\ UNCHANGED <<botVars, gameVars, tsVars, resolveVars, moreVars>>

NextRetry ==
    \/ \E impl \in {"res", "ts"}, mr \in RetryArgs : RetryStart(impl, mr)
    \/ \E outcome \in TransportOutcomes, retryAfter \in RetryAfters :
          RetryCall(outcome, retryAfter)

\* every call of the wrapped function settles and every sleep ends
SpecRetry ==
    /\ Init
    /\ [][NextRetry]_vars
    /\ WF_vars(\E outcome \in TransportOutcomes, retryAfter \in RetryAfters :
                   RetryCall(outcome, retryAfter))

----------------------------------------------------------------------------
(* processPendingJoins await by await: the answers to the players            *)
(* (Promise.all), then the edit of the game message or the announcement of   *)
(* the winner under withRetry. One such task runs at a time; /guess and join *)
(* taps go on meanwhile.                                                     *)

\* the task is not suspended at an await
TaskOver == resolution.pc \in {"idle", "done", "rejected"}

\* processPendingJoins from the firing of the timer to `await Promise.all`
ResolutionStarts ==
    /\ TaskOver
    /\ ResolveBatch
    /\ resolution' =
          IF pendingJoins # NoBatch /\ games.tag = "Collecting"
          THEN LET r == admitAll(games, uniquePlayers(pendingJoins.players, <<>>), <<>>)
               IN  [pc         |-> IF r.threw THEN "rejected" ELSE "acks",
                    kind       |-> "none",
                    finalState |-> r.state,
                    acks       |-> "pending",
                    w          |-> NoRetry]
          ELSE [pc |-> "done", kind |-> "none", finalState |-> games,
                acks |-> "none", w |-> NoRetry]
    /\ UNCHANGED <<gameVars, tsVars, retryVars, moreVars>>

\* `await Promise.all(answerCbQuery ...)` settles: allOk when every answer
\* resolved; a rejected answer rejects the await and with it the task. Then
\* the switch on finalState, up to the first call under withRetry.
AcksSettle(allOk) ==
    /\ resolution.pc = "acks"
    /\ resolution' =
          IF allOk
          THEN [resolution EXCEPT
                   !.pc   = IF resolution.finalState.tag = "Collecting"
                            THEN "edit" ELSE "announce",
                   !.kind = IF resolution.finalState.tag = "Collecting"
                            THEN "edit" ELSE "announce",
                   !.acks = "ok",
                   !.w    = startRetry("res", maxRetries)]
          ELSE [resolution EXCEPT !.pc = "rejected", !.acks = "failed"]
    /\ UNCHANGED <<botVars, gameVars, tsVars, retryVars, moreVars>>

\* one call of editMessageTextL (session still Collecting) or sendMessage
\* (session Completed) under withRetry; when withRetry is over the task
\* returns Ok()
ResolutionCall(outcome) ==
    /\ resolution.pc \in {"edit", "announce"}
    /\ LET w == resRetryStep(resolution.w, outcome, 0)
       IN  resolution' =
              [resolution EXCEPT
                  !.w  = w,
                  !.pc = IF w.result = "pending" THEN @
                         ELSE IF w.result = "Throw" THEN "rejected" ELSE "done"]
    /\ UNCHANGED <<botVars, gameVars, tsVars, retryVars, moreVars>>

NextResolve ==
    \/ \E u \in GuessUsers, args \in GuessArgs, d \in PlayerDraws, dt \in ElapsedChoices :
           HandleGuessCommand(u, args, d, dt)
    \/ \E u \in Users : HandleJoinGame(u)
    \/ ResolutionStarts
    \/ \E allOk \in BOOLEAN : AcksSettle(allOk)
    \/ \E outcome \in {"ok", "error"} : ResolutionCall(outcome)

SpecResolve == Init /\ [][NextResolve]_vars

----------------------------------------------------------------------------
(* Index.res: the delete queue. enqueueDelete is called by the handlers of   *)
(* every chat; drainDeleteQueue is started by the one-shot timer only and    *)
(* is followed await by await. The timer, the deleteMessage call and the     *)
(* sleep all come to an end (weak fairness).                                 *)

\* enqueueDelete calls in a run
MaxDeletes == 4

\* the chats whose handlers enqueue
DeleteChats == {1, 2}

\* what is going on when enqueueDelete is called
DeleteSituation ==
    IF isProcessingDeleteQueue THEN "draining"
    ELSE IF deleteQueueTimeout THEN "armed"
    ELSE "idle"

\* scheduleDeleteQueueDrain(): deleteQueueTimeout.contents after the call
scheduleDeleteQueueDrain(timeout) == IF timeout THEN timeout ELSE TRUE

\* enqueueDelete(task) by a handler of chat c; the message id is a new one
EnqueueDelete(c) ==
    /\ Len(enqueuedWhen) < MaxDeletes
    /\ LET task == [chatId |-> c, messageId |-> Len(enqueuedWhen) + 1]
       IN  deleteQueue' = Append(deleteQueue, task)
    /\ deleteQueueTimeout' =
          IF ~isProcessingDeleteQueue
          THEN scheduleDeleteQueueDrain(deleteQueueTimeout)
          ELSE deleteQueueTimeout
    /\ enqueuedWhen' = Append(enqueuedWhen, DeleteSituation)
    /\ UNCHANGED <<isProcessingDeleteQueue, drain, deleteCalls>>
    /\ UNCHANGED <<botVars, gameVars, tsVars, retryVars, resolveVars,
                   tsGuessVars, twinVars, displayVars, tsDeleteVars>>

\* drainDeleteQueue that takes one task and returns after its sleep
DrainOneTask ==
    IF Len(deleteQueue) > 0 /\ drain.pc # "sleeping"
    THEN LET task == deleteQueue[Len(deleteQueue)]
         IN  /\ deleteQueue' = SubSeq(deleteQueue, 1, Len(deleteQueue) - 1)
             /\ drain' = [pc |-> "deleting", task |-> task]
             /\ deleteCalls' = Append(deleteCalls, task)
             /\ isProcessingDeleteQueue' = TRUE
    ELSE /\ drain' = [pc |-> "idle", task |-> NoDelete]
         /\ isProcessingDeleteQueue' = FALSE
         /\ UNCHANGED <<deleteQueue, deleteCalls>>

\* the while loop of drainDeleteQueue up to its next await: pop the last
\* task and call deleteMessage, or leave the loop and drop the flag
DrainLoop ==
    IF Len(deleteQueue) > 0
    THEN LET task == deleteQueue[Len(deleteQueue)]
         IN  /\ deleteQueue' = SubSeq(deleteQueue, 1, Len(deleteQueue) - 1)
             /\ drain' = [pc |-> "deleting", task |-> task]
             /\ deleteCalls' = Append(deleteCalls, task)
             /\ isProcessingDeleteQueue' = TRUE
    ELSE /\ drain' = [pc |-> "idle", task |-> NoDelete]
         /\ isProcessingDeleteQueue' = FALSE
         /\ UNCHANGED <<deleteQueue, deleteCalls>>

\* the timer set by scheduleDeleteQueueDrain fires: the ref is reset and
\* drainDeleteQueue() is called, which returns at once when a drain runs
DeleteTimerFires ==
    /\ deleteQueueTimeout
    /\ deleteQueueTimeout' = FALSE
    /\ IF ~isProcessingDeleteQueue
       THEN DrainLoop
       ELSE UNCHANGED <<deleteQueue, drain, deleteCalls, isProcessingDeleteQueue>>
    /\ UNCHANGED enqueuedWhen
    /\ UNCHANGED <<botVars, gameVars, tsVars, retryVars, resolveVars,
                   tsGuessVars, twinVars, displayVars, tsDeleteVars>>

\* the deleteMessage promise settles: a rejection is caught and ignored, and
\* the drain goes on to sleep(100)
DeleteSettles(ok) ==
    /\ drain.pc = "deleting"
    /\ drain' = [pc |-> "sleeping", task |-> drain.task, ok |-> ok]
    /\ UNCHANGED <<deleteQueue, isProcessingDeleteQueue, deleteQueueTimeout,
                   deleteCalls, enqueuedWhen>>
    /\ UNCHANGED <<botVars, gameVars, tsVars, retryVars, resolveVars,
                   tsGuessVars, twinVars, displayVars, tsDeleteVars>>

\* sleep(100) is over: the loop condition is read again
SleepOver ==
    /\ drain.pc = "sleeping"
    /\ DrainLoop
    /\ UNCHANGED <<deleteQueueTimeout, enqueuedWhen>>
    /\ UNCHANGED <<botVars, gameVars, tsVars, retryVars, resolveVars,
                   tsGuessVars, twinVars, displayVars, tsDeleteVars>>

NextDelete ==
    \/ \E c \in DeleteChats : EnqueueDelete(c)
    \/ DeleteTimerFires
    \/ \E ok \in BOOLEAN : DeleteSettles(ok)
    \/ SleepOver

SpecDelete ==
    /\ Init
    /\ [][NextDelete]_vars
    /\ WF_vars(DeleteTimerFires)
    /\ WF_vars(\E ok \in BOOLEAN : DeleteSettles(ok))
    /\ WF_vars(SleepOver)

----------------------------------------------------------------------------
(* Index.res: what the chat is shown of a session. The handlers that change  *)
(* the stored session go on, past their awaits, to edit the game message or  *)
(* to send the winner announcement under withRetry; any number of them are   *)
(* suspended at once, and every call they issue is recorded in order.        *)

\* the most handlers that reach such a call in a run
MaxDisplay == 2

\* the session a handler holds, told from the other sessions of the run by the
\* winning number createGame drew for it (GameDraws gives successive games
\* different ones)
sessionOf(state) == state.winningNumber

\* how many players a text shows: the list of gameStateText for a Collecting
\* or Completed state, none for a Cancelled one
playersShown(state) ==
    IF state.tag \in {"Collecting", "Completed"} THEN Len(state.players) ELSE 0

\* a handler that has updated games and is about to show `state`, the session
\* it took from the store being `held`: processPendingJoins at
\* `await Promise.all` (pc "acks"), or a handler inside withRetry (pc "call")
displayTask(pc, kind, held, state) ==
    [id        |-> displayN + 1,
     pc        |-> pc,
     kind      |-> kind,
     messageId |-> held.messageId,
     session   |-> sessionOf(held),
     state     |-> state,
     w         |-> IF pc = "call" THEN startRetry("res", maxRetries) ELSE NoRetry]

\* the call a task issues: editMessageTextL(messageId, gameStateText(state))
\* with the join button (kind "edit") or without it (kind "kill"), or
\* sendMessage of the winner announcement (kind "announce")
callOf(task) ==
    [task      |-> task.id,
     kind      |-> task.kind,
     messageId |-> task.messageId,
     session   |-> task.session,
     tag       |-> task.state.tag,
     players   |-> playersShown(task.state)]

\* the task processPendingJoins becomes when it has set games to finalState
resolveTask(held, r) ==
    IF r.threw THEN {}
    ELSE {displayTask("acks",
                      IF r.state.tag = "Collecting" THEN "edit" ELSE "announce",
                      held, r.state)}

\* processPendingJoins from the firing of the timer to `await Promise.all`
DisplayResolve ==
    /\ ResolveBatch
    /\ IF pendingJoins # NoBatch /\ games.tag = "Collecting"
       THEN LET r == admitAll(games, uniquePlayers(pendingJoins.players, <<>>), <<>>)
            IN  /\ displayN < MaxDisplay
                /\ displayTasks' = displayTasks \cup resolveTask(games, r)
                /\ displayN' = displayN + Cardinality(resolveTask(games, r))
       ELSE UNCHANGED <<displayTasks, displayN>>
    /\ UNCHANGED shown
    /\ UNCHANGED <<gameVars, tsVars, retryVars, resolveVars, tsGuessVars, twinVars,
                   deleteVars, tsDeleteVars>>

\* n participants who are not in the session tap the join button within one
\* window and the timer fires: n calls of handleJoinGame and
\* processPendingJoins up to `await Promise.all`, taken as one step (the
\* answers to the taps are not recorded)
DisplayWindow(n) ==
    /\ games.tag = "Collecting"
    /\ pendingJoins = NoBatch
    /\ timers = 0
    /\ displayN < MaxDisplay
    /\ LET k       == Len(games.players)
           players == [i \in 1..n |-> Player(k + i, k + i)]
           r       == admitAll(games, players, <<>>)
       IN  /\ \A i \in 1..n : HasSendtag(k + i)
           /\ games' = r.state
           /\ displayTasks' = displayTasks \cup resolveTask(games, r)
           /\ displayN' = displayN + Cardinality(resolveTask(games, r))
    /\ UNCHANGED shown
    /\ UNCHANGED <<gameCap, surges, pendingJoins, timers, now, guessTasks, nextMsg,
                   answers, nextCb, joiners, arrivals, killedUpTo>>
    /\ UNCHANGED <<gameVars, tsVars, retryVars, resolveVars, tsGuessVars, twinVars,
                   deleteVars, tsDeleteVars>>

\* `await Promise.all(answerCbQuery ...)` of a suspended processPendingJoins
\* settles: rejected, the task is over; resolved, the task enters withRetry
\* and issues its first call
DisplayAcks(task, allOk) ==
    /\ task \in displayTasks
    /\ task.pc = "acks"
    /\ LET called == [task EXCEPT !.pc = "call", !.w = startRetry("res", maxRetries)]
       IN  IF allOk
           THEN /\ displayTasks' = (displayTasks \ {task}) \cup {called}
                /\ shown' = Append(shown, callOf(called))
           ELSE /\ displayTasks' = displayTasks \ {task}
                /\ UNCHANGED shown
    /\ UNCHANGED displayN
    /\ UNCHANGED <<botVars, gameVars, tsVars, retryVars, resolveVars, tsGuessVars,
                   twinVars, deleteVars, tsDeleteVars>>

\* the call a task has issued settles: withRetry is over (Ok, or the retries
\* are used up), or it sleeps and issues the call again, with the arguments it
\* captured
DisplayCall(task, outcome) ==
    /\ task \in displayTasks
    /\ task.pc = "call"
    /\ LET w == resRetryStep(task.w, outcome, 0)
       IN  IF w.result = "pending"
           THEN /\ displayTasks' = (displayTasks \ {task}) \cup {[task EXCEPT !.w = w]}
                /\ shown' = Append(shown, callOf(task))
           ELSE /\ displayTasks' = displayTasks \ {task}
                /\ UNCHANGED shown
    /\ UNCHANGED displayN
    /\ UNCHANGED <<botVars, gameVars, tsVars, retryVars, resolveVars, tsGuessVars,
                   twinVars, deleteVars, tsDeleteVars>>

\* the /kill handler up to the first editMessageTextL of withRetry: the text
\* of the cancelled session, on the message of the session it found
DisplayKill(u) ==
    /\ KillCommand(u)
    /\ IF HasSendtag(u) /\ u \in getAdminIds /\ games.tag = "Collecting"
       THEN LET task == displayTask("call", "kill", games,
                                    cancelGame(games, AdminCancelled(u)))
            IN  /\ displayN < MaxDisplay
                /\ displayTasks' = displayTasks \cup {task}
                /\ displayN' = displayN + 1
                /\ shown' = Append(shown, callOf(task))
       ELSE UNCHANGED displayVars
    /\ UNCHANGED <<gameVars, tsVars, retryVars, resolveVars, tsGuessVars, twinVars,
                   deleteVars, tsDeleteVars>>

\* the first game of a chat: one administrator starts it and kills it, two
\* participants tap the join button, and every batch, answer and call takes
\* its time
NextDisplay ==
    \/ games = NoGame /\ \E dt \in ElapsedChoices : HandleGuessCommand(1, <<>>, 0, dt)
    \/ \E task \in guessTasks, outcomes \in ReplyOutcomes :
           GuessReplied(task, outcomes)
    \/ \E u \in RestartJoiners : HandleJoinGame(u)
    \/ DisplayResolve
    \/ \E task \in displayTasks, allOk \in BOOLEAN : DisplayAcks(task, allOk)
    \/ \E task \in displayTasks, outcome \in {"ok", "error"} : DisplayCall(task, outcome)
    \/ DisplayKill(1)

SpecDisplay == Init /\ [][NextDisplay]_vars

\* the sizes of the windows taken in one step
WindowSizes == 1..3

\* games that fill up window by window while the reply to /guess is on its way
NextAnnounce ==
    \/ \E dt \in ElapsedChoices : HandleGuessCommand(1, <<>>, 0, dt)
    \/ \E task \in guessTasks, outcomes \in ReplyOutcomes :
           GuessReplied(task, outcomes)
    \/ \E n \in WindowSizes : DisplayWindow(n)
    \/ \E task \in displayTasks, allOk \in BOOLEAN : DisplayAcks(task, allOk)
    \/ \E task \in displayTasks, outcome \in {"ok", "error"} : DisplayCall(task, outcome)

SpecAnnounce == Init /\ [][NextAnnounce]_vars

----------------------------------------------------------------------------
(* index.ts: the delete queue. queueMessageDeletion is called by the         *)
(* handlers of every chat and starts processDeleteQueue when it is not       *)
(* running; processDeleteQueue is followed await by await.                   *)

\* the most messages queued for deletion in a run
MaxTsDeletes == 3

\* the conversations whose handlers queue deletions
TsDeleteChats == {1, 2}

\* deleteQueue.splice(0, 10)
deleteBatchSize == 10

\* the default maxRetries of withRetry in index.ts
tsMaxRetries == 3

TsIdle == [pc |-> "idle", batch |-> <<>>, i |-> 0, w |-> NoRetry]

\* bot.telegram.deleteMessages(batch[0].chatId, batch.map(task => task.messageId))
tsBatchCall(batch) ==
    [method     |-> "deleteMessages",
     chatId     |-> batch[1].chatId,
     messageIds |-> [k \in 1..Len(batch) |-> batch[k].messageId]]

\* bot.telegram.deleteMessage(task.chatId, task.messageId)
tsSingleCall(task) ==
    [method |-> "deleteMessage", chatId |-> task.chatId, messageIds |-> <<task.messageId>>]

\* processDeleteQueue at the test of its while loop, the queue being `queue`:
\* it takes the next batch and issues the first deleteMessages call of
\* withRetry, or it clears the flag and returns
TsLoop(queue) ==
    IF Len(queue) > 0
    THEN LET n     == IF Len(queue) < deleteBatchSize THEN Len(queue) ELSE deleteBatchSize
             batch == SubSeq(queue, 1, n)
         IN  /\ tsDeleteQueue' = SubSeq(queue, n + 1, Len(queue))
             /\ isProcessingQueue' = TRUE
             /\ tsDrain' = [pc |-> "batch", batch |-> batch, i |-> 0,
                            w |-> startRetry("ts", tsMaxRetries)]
             /\ tsDeleteCalls' = Append(tsDeleteCalls, tsBatchCall(batch))
    ELSE /\ tsDeleteQueue' = queue
         /\ isProcessingQueue' = FALSE
         /\ tsDrain' = TsIdle
         /\ UNCHANGED tsDeleteCalls

\* queueMessageDeletion(ctx, messageId) for a message of chat c that is to be
\* deleted (not the plain message of an administrator), from the making of
\* the task on; the message is the next one Telegram numbered
QueueMessageDeletion(c, isBotMessage) ==
    /\ Cardinality(tsEnqueued) < MaxTsDeletes
    /\ LET task  == [chatId |-> c, messageId |-> Cardinality(tsEnqueued) + 1]
           queue == IF isBotMessage THEN <<task>> \o tsDeleteQueue
                    ELSE Append(tsDeleteQueue, task)
       IN  /\ tsEnqueued' = tsEnqueued \cup {task}
           /\ IF ~isProcessingQueue
              THEN TsLoop(queue)
              ELSE /\ tsDeleteQueue' = queue
                   /\ UNCHANGED <<isProcessingQueue, tsDrain, tsDeleteCalls>>
    /\ UNCHANGED <<botVars, gameVars, tsVars, retryVars, resolveVars, tsGuessVars,
                   twinVars, deleteVars, displayVars>>

\* the deleteMessages call settles: withRetry calls again, or returns and the
\* task sleeps, or throws and the task falls back to one deleteMessage per
\* task of the batch
TsBatchSettles(outcome, retryAfter) ==
    /\ tsDrain.pc = "batch"
    /\ LET w == tsRetryStep(tsDrain.w, outcome, retryAfter)
       IN  CASE w.result = "pending" ->
                   /\ tsDrain' = [tsDrain EXCEPT !.w = w]
                   /\ tsDeleteCalls' = Append(tsDeleteCalls, tsBatchCall(tsDrain.batch))
             [] w.result = "Ok" ->
                   /\ tsDrain' = [tsDrain EXCEPT !.w = w, !.pc = "sleep"]
                   /\ UNCHANGED tsDeleteCalls
             [] OTHER ->
                   /\ tsDrain' = [tsDrain EXCEPT !.w = w, !.pc = "single", !.i = 1]
                   /\ tsDeleteCalls' = Append(tsDeleteCalls, tsSingleCall(tsDrain.batch[1]))
    /\ UNCHANGED <<tsDeleteQueue, isProcessingQueue, tsEnqueued>>
    /\ UNCHANGED <<botVars, gameVars, tsVars, retryVars, resolveVars, tsGuessVars,
                   twinVars, deleteVars, displayVars>>

\* a deleteMessage of the fallback settles, whatever its outcome: the next
\* task of the batch, or the loop again
TsSingleSettles ==
    /\ tsDrain.pc = "single"
    /\ IF tsDrain.i < Len(tsDrain.batch)
       THEN /\ tsDrain' = [tsDrain EXCEPT !.i = @ + 1]
            /\ tsDeleteCalls' =
                   Append(tsDeleteCalls, tsSingleCall(tsDrain.batch[tsDrain.i + 1]))
            /\ UNCHANGED <<tsDeleteQueue, isProcessingQueue>>
       ELSE TsLoop(tsDeleteQueue)
    /\ UNCHANGED tsEnqueued
    /\ UNCHANGED <<botVars, gameVars, tsVars, retryVars, resolveVars, tsGuessVars,
                   twinVars, deleteVars, displayVars>>

\* sleep(100) after a batch is over
TsSleepOver ==
    /\ tsDrain.pc = "sleep"
    /\ TsLoop(tsDeleteQueue)
    /\ UNCHANGED tsEnqueued
    /\ UNCHANGED <<botVars, gameVars, tsVars, retryVars, resolveVars, tsGuessVars,
                   twinVars, deleteVars, displayVars>>

NextTsDelete ==
    \/ \E c \in TsDeleteChats, isBotMessage \in BOOLEAN : QueueMessageDeletion(c, isBotMessage)
    \/ \E outcome \in {"ok", "error", "429"}, retryAfter \in RetryAfters :
           TsBatchSettles(outcome, retryAfter)
    \/ TsSingleSettles
    \/ TsSleepOver

SpecTsDelete == Init /\ [][NextTsDelete]_vars

----------------------------------------------------------------------------
(* Properties of the Game module, checked under SpecGame.                    *)

\* the last operation was addPlayer on a collecting session of capacity >= 1
\* and the player it was given is the one that fills the last slot
FillsLastSlot ==
    /\ lastOp.op = "addPlayer"
    /\ lastOp.before.tag = "Collecting"
    /\ sessCap >= 1
    /\ Len(lastOp.before.players) + 1 = sessCap

\* C2: when the player that brings the player list of a session of capacity
\* N >= 1 to length N is admitted, the session completes in that same
\* operation and its winner is the element at the 1-based index
\* winningNumber of the final player list, the list before the call with the
\* admitted player appended.
C2_WinnerDeterminism ==
    FillsLastSlot =>
        /\ ~lastOp.threw
        /\ sess.tag = "Completed"
        /\ sess.players = Append(lastOp.before.players, lastOp.player)
        /\ Len(sess.players) = sessCap
        /\ sess.winningNumber = lastOp.before.winningNumber
        /\ sess.winningNumber \in 1..sessCap
        /\ sess.winner = sess.players[sess.winningNumber]

\* a session of capacity 3 completed by its third player, whose winner is
\* neither the first nor the last player
C2_Witness ==
    /\ FillsLastSlot
    /\ sessCap = 3
    /\ sess.tag = "Completed"
    /\ sess.winningNumber = 2
    /\ sess.winner = sess.players[2]
    /\ sess.players[1].userId # sess.players[2].userId

\* C4: addPlayer given a player whose identity is already in the player list
\* of a collecting session is a no-op: the session is unchanged and the
\* position returned is -1.
C4_IdempotentAdmission ==
    ( /\ lastOp.op = "addPlayer"
      /\ lastOp.before.tag = "Collecting"
      /\ Some(lastOp.before.players, LAMBDA p : p.userId = lastOp.player.userId) )
    => ( /\ sess = lastOp.before
         /\ lastOp.pos = -1 )

\* C16: createGame given a capacity below 1 is rejected: no session value
\* comes out of the call.
C16_InvalidCapacityRejected ==
    (lastOp.op = "createGame" /\ sessCap < 1) => sess = NoGame

\* C6: addPlayer and cancelGame applied to a completed or cancelled session
\* return it unchanged, and addPlayer returns the position -1.
C6_TerminalImmutability ==
    ( /\ lastOp.op \in {"addPlayer", "cancelGame"}
      /\ IsTerminal(lastOp.before) )
    => ( /\ sess = lastOp.before
         /\ lastOp.op = "addPlayer" => (lastOp.pos = -1 /\ ~lastOp.threw) )

\* cancelGame was applied to a completed session that has a winner
C6_Witness ==
    /\ lastOp.op = "cancelGame"
    /\ lastOp.before.tag = "Completed"
    /\ sess.tag = "Completed"
    /\ Len(sess.players) >= 2

\* the session has its stake fields: it is Collecting or Completed
HasStake(state) == state.tag \in {"Collecting", "Completed"}

\* the surge part of the stake for the surge and the clock createGame was
\* given
StakeSurgeOf(surge, t) ==
    IF surge # NoSurge /\ t - surge.updatedAt < surgeCooldown
    THEN surge.multiplier * surgeIncrease
    ELSE 0

\* C25: the total stake of a session is its base stake plus its surge stake;
\* the surge stake is multiplier times the surge increment when the surge
\* given to createGame is inside its cooldown window and 0 otherwise;
\* addPlayer keeps the three amounts, also when it completes the session.
C25_StakeDecomposition ==
    /\ HasStake(sess) => sess.amount = sess.baseAmount + sess.surgeAmount
    /\ lastOp.op = "createGame" =>
           sess.surgeAmount = StakeSurgeOf(lastOp.surge, lastOp.t)
    /\ (lastOp.op = "addPlayer" /\ HasStake(lastOp.before) /\ HasStake(sess)) =>
           /\ sess.amount = lastOp.before.amount
           /\ sess.baseAmount = lastOp.before.baseAmount
           /\ sess.surgeAmount = lastOp.before.surgeAmount

\* a session created with an active surge of multiplier 2 was completed by
\* addPlayer and still has 50 + 100
C25_Witness ==
    /\ lastOp.op = "addPlayer"
    /\ lastOp.before.tag = "Collecting"
    /\ sess.tag = "Completed"
    /\ sess.surgeAmount = 2 * surgeIncrease
    /\ sess.amount = minGuessAmount + 2 * surgeIncrease

----------------------------------------------------------------------------
(* Properties of the bot, checked under Spec.                                *)

\* the fields a Completed state carries
CompletedFields ==
    {"tag", "winningNumber", "amount", "baseAmount", "surgeAmount", "master",
     "players", "winner"}

\* the fields of a session that createGame fixes and both states carry
SameCreationFields(a, b) ==
    /\ a.winningNumber = b.winningNumber
    /\ a.baseAmount = b.baseAmount
    /\ a.surgeAmount = b.surgeAmount
    /\ a.amount = b.amount
    /\ a.master = b.master

\* C32: addPlayer on a Collecting session changes the players and, on the
\* admission that fills it, the state and the winner, and nothing else: the
\* winning number, the three amounts and the master are the ones before, and
\* so are maxPlayers and messageId while the session stays Collecting (a
\* Completed state carries neither). A call that throws changes nothing.
C32_AddPlayerFrame ==
    (lastOp.op = "addPlayer" /\ lastOp.before.tag = "Collecting") =>
        IF lastOp.threw
        THEN sess = lastOp.before
        ELSE /\ sess.players = Append(lastOp.before.players, lastOp.player)
             /\ SameCreationFields(sess, lastOp.before)
             /\ IF sess.tag = "Collecting"
                THEN sess = [lastOp.before EXCEPT !.players = sess.players]
                ELSE /\ sess.tag = "Completed"
                     /\ DOMAIN sess = CompletedFields
                     /\ Len(sess.players) >= lastOp.before.maxPlayers

\* the second of three admissions into a session that was created with the
\* winning number 3 and an active surge
C32_Witness ==
    /\ lastOp.op = "addPlayer"
    /\ lastOp.before.tag = "Collecting"
    /\ sess.tag = "Collecting"
    /\ Len(sess.players) = 2
    /\ sess.maxPlayers = 3
    /\ sess.winningNumber = 3
    /\ sess.surgeAmount = 2 * surgeIncrease

\* the smaller of two numbers, and the set of the elements of a sequence
Min(a, b) == IF a < b THEN a ELSE b

Range(s) == {s[i] : i \in 1..Len(s)}

\* the userIds of a sequence of players
UserIds(players) == [i \in 1..Len(players) |-> players[i].userId]

\* the first n elements of a sequence
Prefix(s, n) == SubSeq(s, 1, Min(n, Len(s)))

\* the elements of a sequence in the order of their first occurrence
RECURSIVE FirstSeen(_, _)
FirstSeen(s, acc) ==
    IF s = <<>> THEN acc
    ELSE FirstSeen(Tail(s), IF Head(s) \in Range(acc) THEN acc ELSE Append(acc, Head(s)))

\* the step is a firing that consumes the pending batch
ResolvesBatch == pendingJoins # NoBatch /\ pendingJoins' = NoBatch

\* the slots the stored session has left
SlotsLeft == games.maxPlayers - Len(games.players)

\* the session in the store has a player list
HasPlayers(game) == game.tag \in {"Collecting", "Completed"}

\* C1: the player list of a session never gets longer than the capacity the
\* session was created with; when a batch is processed, the candidates past
\* the last free slot are answered "filled" (position -1) and are not in the
\* session, which holds exactly its former players and the candidates that
\* found a slot.
C1_Step ==
    /\ HasPlayers(games') => Len(games'.players) <= gameCap'
    /\ ResolvesBatch =>
          /\ games'.players = games.players \o Prefix(pendingJoins.players, SlotsLeft)
          /\ \A i \in 1..Len(pendingJoins.players) :
                i > SlotsLeft =>
                   LET cb == pendingJoins.players[i].callbackQueryId
                   IN  /\ answers'[cb] = Append(answers[cb], [kind |-> "Filled", n |-> 0])
                       /\ pendingJoins.players[i] \notin Range(games'.players)

C1_CapacityInvariant == [][C1_Step]_vars

\* a batch met a session with fewer slots than candidates: the session is
\* completed at its capacity and a candidate was answered "filled"
C1_Witness ==
    /\ games.tag = "Completed"
    /\ Len(games.players) = gameCap
    /\ \E cb \in 1..MaxTaps :
          /\ Len(answers[cb]) = 2
          /\ answers[cb][2].kind = "Filled"
          /\ \A i \in 1..Len(games.players) : games.players[i].callbackQueryId # cb

\* C3: no two entries of the player list of the stored session have the same
\* userId.
C3_NoDuplicatePlayers ==
    HasPlayers(games) =>
        \A i, j \in 1..Len(games.players) :
            games.players[i].userId = games.players[j].userId => i = j

\* players were admitted from two batches and some tap was refused as
\* AlreadyJoined
C3_Witness ==
    /\ HasPlayers(games)
    /\ Len(games.players) >= 2
    /\ games.players[2].callbackQueryId > games.players[1].callbackQueryId + 1
    /\ \E cb \in 1..MaxTaps : answers[cb] = <<[kind |-> "AlreadyJoined", n |-> 0]>>

\* C5: the candidates of a window are admitted in the order of their first
\* tap, a participant who tapped again being admitted once, at the rank of
\* the first tap: the player list gains, after its former players, the
\* first-seen order of the taps up to the slots left.
C5_Step ==
    ResolvesBatch =>
        UserIds(games'.players) =
            UserIds(games.players) \o Prefix(FirstSeen(arrivals, <<>>), SlotsLeft)

C5_ArrivalOrder == [][C5_Step]_vars

\* the taps A, B, C and a repeat were resolved as one batch: A, B, C hold
\* the positions 1, 2, 3 and the repeat was refused
C5_Witness ==
    /\ games.tag = "Completed"
    /\ UserIds(games.players) = <<1, 2, 3>>
    /\ \A cb \in 1..3 : Len(answers[cb]) = 2 /\ answers[cb][1].kind = "Success"
    /\ answers[1][1].n = 1 /\ answers[3][1].n = 3
    /\ answers[4] = <<[kind |-> "AlreadyJoined", n |-> 0]>>

\* C7: a firing of the timer removes the batch from the pending store,
\* whatever the state of the session is.
C7_Step == timers' < timers => pendingJoins' = NoBatch

C7_BatchConsumedOnce == [][C7_Step]_vars

\* C8: no candidate of a batch that was pending when its session was
\* cancelled is a player of the stored session, then or later.
C8_CancelledBatchHasNoEffect ==
    HasPlayers(games) =>
        \A i \in 1..Len(games.players) : games.players[i].callbackQueryId > killedUpTo

\* C9: at most one timer is armed for the conversation at any time.
C9_SingleTimer == timers <= 1

\* two candidates joined the same batch under one armed timer
C9_Witness ==
    /\ timers = 1
    /\ pendingJoins # NoBatch
    /\ Len(pendingJoins.players) >= 2

\* a tap was answered with the outcome of a batch: a position, the win, or
\* "filled"
Resolved(cb) ==
    \E i \in 1..Len(answers[cb]) : answers[cb][i].kind \in {"Position", "Won", "Filled"}

\* C10: the callback query of every candidate resolved in a batch is answered
\* exactly once over the whole run.
C10_AnsweredExactlyOnce ==
    \A cb \in 1..MaxTaps : Resolved(cb) => Len(answers[cb]) = 1


\* C11: the store never holds a terminal session: a session that is Completed
\* or Cancelled has been removed from the store of the conversation.
C11_NoTerminalSessionStored == ~IsTerminal(games)

\* C12: once the session of the conversation has completed, a join by any
\* participant gets the outcome "no active game".
C12_JoinAfterCompletion ==
    games.tag = "Completed" =>
        \A u \in Users : joinResult(games, pendingJoins, u).kind = "NoActiveGame"

\* the step is the /guess handler resuming after the game message was sent
\* (or was given up)
ReplyStep == guessTasks' # guessTasks /\ nextMsg' = nextMsg

\* C13: recording the reference of the sent game message changes only that
\* reference: the step keeps the state of the stored session (a Cancelled or
\* Completed one is not put back as Collecting) and its players.
C13_Step ==
    ReplyStep =>
        /\ games'.tag = games.tag
        /\ HasPlayers(games) => games'.players = games.players
        /\ IsTerminal(games) => games' = games

C13_MonotonicUnderSend == [][C13_Step]_vars

\* C36: in every state of the bot a Collecting session in the store has fewer
\* players than maxPlayers, and a Completed one has as many players as the
\* maxPlayers it was created with, its winner being one of them (the one at
\* the winning number).
C36_SessionShape ==
    /\ games.tag = "Collecting" =>
          /\ Len(games.players) < games.maxPlayers
          /\ games.maxPlayers = gameCap
    /\ games.tag = "Completed" =>
          /\ Len(games.players) = gameCap
          /\ games.winner \in Range(games.players)
          /\ games.winner = games.players[games.winningNumber]

\* a completed session of three players in the store, its winner at the
\* winning number, and a player who was answered position 2
C36_Witness ==
    /\ games.tag = "Completed"
    /\ gameCap = 3
    /\ Len(games.players) = 3
    /\ games.winner = games.players[games.winningNumber]
    /\ \E cb \in 1..MaxTaps :
          /\ Len(answers[cb]) = 2
          /\ answers[cb][2] = [kind |-> "Position", n |-> 2]

----------------------------------------------------------------------------
(* Properties of session creation, checked under SpecCreate.                 *)

\* C14: every session /guess creates has its winning number inside
\* 1..maxPlayers, whatever the arguments and the random draws are.
C14_WinningNumberInRange ==
    sess # NoGame =>
        /\ sess.tag = "Collecting"
        /\ sess.maxPlayers = sessCap
        /\ sess.winningNumber \in 1..sess.maxPlayers

\* a session of the largest capacity was created with the last slot winning
C14_Witness ==
    /\ lastOp.op = "guess"
    /\ sess.tag = "Collecting"
    /\ sess.maxPlayers = maxPlayers
    /\ sess.winningNumber = maxPlayers

----------------------------------------------------------------------------
(* Properties of the game of index.ts, checked under SpecTs.                 *)

\* C33: whatever follows "/guess", the session the command creates has
\* between minPlayers and maxPlayers slots and a base stake of at least
\* minGuessAmount; in particular none has fewer than one slot.
C33_CommandCapacityAndStake ==
    lastOp.op = "guess" =>
        /\ sess.tag = "Collecting"
        /\ sess.maxPlayers \in minPlayers..maxPlayers
        /\ sess.maxPlayers >= 1
        /\ sess.baseAmount >= minGuessAmount

\* a /guess whose first argument is a number below minPlayers created a
\* session of minPlayers slots at the minimum stake
C33_Witness ==
    /\ lastOp.op = "guess"
    /\ lastOp.below
    /\ sess.tag = "Collecting"
    /\ sess.maxPlayers = minPlayers
    /\ sess.baseAmount = minGuessAmount

\* C15: the winning position is fixed at creation and never drawn again: the
\* winner announced at completion is the player at the position drawn at
\* creation, whatever the profile lookups made at completion return.
C15_WinnerNeverRerolled ==
    tsWinner # NoWinner => tsWinner.winner = tsGame.players[tsGame.winningNumber]

----------------------------------------------------------------------------
(* Properties of /kill, checked under SpecKill.                              *)

\* a /kill sent by u now would cancel the stored session
KillCancels(u) == ENABLED (HandleKill(u) /\ games'.tag = "Cancelled")

\* C17: a /kill on a collecting session cancels it exactly when it is sent by
\* the participant who started the session or by an administrator of the
\* chat.
C17_KillAuthorization ==
    games.tag = "Collecting" =>
        \A u \in Users : KillCancels(u) <=> (u = games.master \/ u \in ChatAdmins)

\* ctx.reply fails at every call withRetry makes
AllFail == [i \in 1..maxRetries |-> FALSE]

\* the /guess handler of task resumes with Error("Max retries exceeded")
ReplyGivenUp(task) == GuessReplied(task, AllFail)

\* C37: when the game message of a /guess could not be sent at any attempt,
\* the session the command created is not left in the store: the store holds
\* no Collecting session after the handler has given up, as before the
\* command.
C37_FailedSendLeavesNoSession ==
    [][\A task \in guessTasks :
          (ReplyGivenUp(task) /\ games = task.newState) =>
              games'.tag # "Collecting"]_vars

----------------------------------------------------------------------------
(* Properties of the retry wrappers, checked under SpecRetry.                *)

\* the wrapped function was called at most maxRetries times and not again
\* after the call that resolved
RetryBounded ==
    retry # NoRetry =>
        /\ retry.calls <= (IF retry.maxRetries > 0 THEN retry.maxRetries ELSE 0)
        /\ retry.okAt # 0 => (retry.calls = retry.okAt /\ retry.result = "Ok")
        /\ retry.result \in {"pending", "Ok", "Error", "Throw"}

RetryRunning == IF retry = NoRetry THEN FALSE ELSE retry.result = "pending"

\* C20: the retry wrapper calls the wrapped function at most maxRetries
\* times, never again after the first call that resolved, and every call of
\* the wrapper ends with an outcome, whatever the transport answers.
C20_RetryBoundedAndTerminates ==
    /\ []RetryBounded
    /\ RetryRunning ~> ~RetryRunning

\* withRetry of Index.res with the default maxRetries gave up after three
\* failed calls, having slept 1 and 2 units between them
C20_Witness ==
    /\ retry # NoRetry
    /\ retry.impl = "res"
    /\ retry.maxRetries = maxRetries
    /\ retry.calls = maxRetries
    /\ retry.slept = 3
    /\ retry.result = "Error"

\* the wrapped function rejects with "message to edit not found"
NotFoundCall == \E retryAfter \in RetryAfters : RetryCall("notfound", retryAfter)

\* C21: when the transport reports that the target message is gone, the retry
\* wrapper makes no further attempt: the call of the wrapper is over.
C21_NoRetryWhenMessageGone ==
    [][NotFoundCall => retry'.result # "pending"]_vars

----------------------------------------------------------------------------
(* Properties of the surge, checked under SpecSurge.                         *)

\* the last step was a /guess that created a session less than the cooldown
\* after the previous session of the chat was created
CreatedInsideCooldown ==
    /\ lastOp.op = "guess"
    /\ lastOp.created
    /\ lastOp.nth > 1
    /\ lastOp.elapsed < surgeCooldown

\* C23: a session created inside the cooldown window of the chat's surge
\* raises the stored multiplier by exactly 1, whatever stake was asked for.
C23_SurgeIncrementsByOne ==
    CreatedInsideCooldown => Multiplier(surges) = Multiplier(lastOp.prevSurge) + 1

\* the stake floor of the chat when the last /guess arrived
StakeFloor ==
    minGuessAmount
        + (IF lastOp.prevSurge # NoSurge /\ isSurgeActive(lastOp.prevSurge, now)
           THEN lastOp.prevSurge.multiplier * surgeIncrease
           ELSE 0)

\* C24: every session /guess creates has a total stake of at least the
\* chat's stake floor, the minimum stake plus multiplier times the surge
\* increment; a lower request is raised to the floor.
C24_StakeAtLeastFloor ==
    (lastOp.op = "guess" /\ lastOp.created /\ games.tag = "Collecting") =>
        games.amount >= StakeFloor

\* "/guess 3 49" asked for less than the floor and the session has the floor
C24_Witness ==
    /\ lastOp.op = "guess"
    /\ lastOp.created
    /\ lastOp.args = <<Num(3), Num(49)>>
    /\ games.tag = "Collecting"
    /\ games.amount = StakeFloor

----------------------------------------------------------------------------
(* Properties of /guess of index.ts, checked under SpecTsGuess.              *)

\* the last step was a /guess that found no game, later than the cooldown
\* after the surge data was last touched
LateGuess ==
    /\ tsLast.op = "guess"
    /\ ~tsLast.hadGame
    /\ tsLast.elapsed > surgeCooldown

\* C22: a /guess that comes more than the cooldown window after the chat's
\* last surge activity, with no game active, leaves the surge multiplier at
\* 0, not at the previous multiplier plus one.
C22_SurgeResetAfterCooldown ==
    LateGuess => tsSurge.multiplier = 0

\* the multiplier had grown to 1 or more and the late /guess set it back
C22_Witness ==
    /\ LateGuess
    /\ tsLast.prev >= 1
    /\ tsSurge.multiplier = 0

\* C29: while the chat has a game, no /guess replaces it by another: the
\* game the joiners see is the one first created.
C29_OneSessionPerChat ==
    [][tsHasGame => tsGame'.id = tsGame.id]_vars

----------------------------------------------------------------------------
(* Properties of the resolution task, checked under SpecResolve.             *)

\* the edit of the game message failed on every attempt
EditGaveUp ==
    /\ resolution.kind = "edit"
    /\ resolution.w.calls = maxRetries
    /\ resolution.w.okAt = 0

\* C18: when the edit of the game message fails on every attempt, the
\* resolution still ends normally and the session in the store is the result
\* of the admissions of the batch.
C18_EditFailureSwallowed ==
    EditGaveUp =>
        /\ resolution.pc = "done"
        /\ games = resolution.finalState
        /\ pendingJoins = NoBatch \/ timers > 0

\* a batch of two was admitted into a session that stays Collecting and the
\* three attempts of the edit failed
C18_Witness ==
    /\ EditGaveUp
    /\ resolution.pc = "done"
    /\ games.tag = "Collecting"
    /\ Len(games.players) = 2

\* C19: a failed answer to a player does not abort the resolution: the edit
\* or the announcement is still attempted and the task does not end with an
\* error.
C19_AckFailureDoesNotAbort ==
    resolution.acks = "failed" => resolution.pc \in {"edit", "announce", "done"}

\* the (player, position) pairs processPendingJoins computes for the batch
\* and the session in the store
BatchPositions ==
    admitAll(games, uniquePlayers(pendingJoins.players, <<>>), <<>>).positions

\* C26: resolving a batch of n distinct candidates against a Collecting
\* session with s open slots admits the first min(n, s) in arrival order at
\* the consecutive 1-based positions after the present players, and reports
\* each remaining candidate as overflow (position -1) without adding it.
C26_Step ==
    ResolvesBatch =>
        LET unique   == uniquePlayers(pendingJoins.players, <<>>)
            n        == Len(unique)
            before   == Len(games.players)
            admitted == Min(n, SlotsLeft)
        IN  /\ Len(BatchPositions) = n
            /\ \A i \in 1..n :
                  /\ BatchPositions[i].player = unique[i]
                  /\ BatchPositions[i].pos = IF i <= admitted THEN before + i ELSE -1
            /\ games'.players = games.players \o SubSeq(unique, 1, admitted)
            /\ \A i \in 1..admitted : games'.players[before + i] = unique[i]

C26_BatchPositions == [][C26_Step]_vars

\* a batch of four met a session of three slots: the third candidate was told
\* position 3 or the win, the fourth that the game filled up
C26_Witness ==
    /\ resolution.pc = "acks"
    /\ resolution.finalState.tag = "Completed"
    /\ Len(resolution.finalState.players) = 3
    /\ \E cb \in 1..MaxTaps :
          /\ Len(answers[cb]) = 2
          /\ answers[cb][2] = [kind |-> "Position", n |-> 3]
    /\ \E cb \in 1..MaxTaps :
          /\ Len(answers[cb]) = 2
          /\ answers[cb][2].kind = "Filled"

----------------------------------------------------------------------------
(* Properties of the join button, checked under SpecJoin.                    *)

\* the last step was a tap by a participant whose first name yields no
\* sendtag
TaglessTap == lastOp.op = "join" /\ ~HasSendtag(lastOp.user)

\* the tap left the pending batch, the timers and the session as it found
\* them
TapChangedNothing ==
    /\ pendingJoins = lastOp.pending
    /\ timers = lastOp.timers
    /\ games = lastOp.game

CandidatesOf(pending, u) ==
    IF pending = NoBatch THEN {}
    ELSE {i \in 1..Len(pending.players) : pending.players[i].userId = u}

\* the last step was a tap by a participant who was a candidate of the
\* pending batch already: the second submission in the window
SecondTap ==
    /\ lastOp.op = "join"
    /\ CandidatesOf(lastOp.pending, lastOp.user) # {}

\* C28: after a second join by the same identity in one collection window
\* the pending batch holds exactly one candidate for the identity, and the
\* candidate carries the callback query id of the second tap.
C28_SecondTapKeepsLatestToken ==
    SecondTap =>
        /\ Cardinality(CandidatesOf(pendingJoins, lastOp.user)) = 1
        /\ \A i \in CandidatesOf(pendingJoins, lastOp.user) :
              pendingJoins.players[i].callbackQueryId = lastOp.cb

----------------------------------------------------------------------------
(* Properties of the two runs side by side, checked under SpecTwin.          *)

\* C30: the winning number cannot be observed before the session is
\* completed: two runs that differ in it alone show the same game message
\* and give the same answers as long as the session is Collecting.
C30_WinningNumberNotObservable ==
    (lastOp.op \in {"create", "batch"} /\ sess.tag = "Collecting") =>
        /\ twin.tag = "Collecting"
        /\ lastOp.text = lastOp.twinText
        /\ lastOp.acks = lastOp.twinAcks

\* two collecting sessions of three slots with the winning numbers 1 and 3,
\* after a batch of two candidates was resolved in both
C30_Witness ==
    /\ lastOp.op = "batch"
    /\ sess.tag = "Collecting"
    /\ twin.tag = "Collecting"
    /\ sess.winningNumber = 1
    /\ twin.winningNumber = 3
    /\ Len(sess.players) = 2
    /\ Len(lastOp.acks) = 2
    /\ lastOp.text = lastOp.twinText

----------------------------------------------------------------------------
(* More properties of /guess of index.ts, checked under SpecTsGuess.         *)

\* a /guess command arrives now, in this step
TsGuessArrives == tsLast'.op = "guess" /\ tsLast'.n = tsLast.n + 1

\* C31: a /guess issued while the chat has a game that is collecting players
\* creates no game (none is stored, none is on its way to the store) and
\* leaves the surge multiplier as it was, inside and past the cooldown.
C31_GuessWhileCollecting ==
    [][(tsHasGame /\ TsGuessArrives) =>
          /\ tsGame' = tsGame
          /\ tsTasks' = tsTasks
          /\ tsSurge'.multiplier = tsSurge.multiplier]_vars

\* a /guess that found a game in the chat, with the multiplier at 1 or more
\* and kept
C31_Witness ==
    /\ tsLast.op = "guess"
    /\ tsLast.hadGame
    /\ tsHasGame
    /\ tsLast.prev >= 1
    /\ tsSurge.multiplier = tsLast.prev

----------------------------------------------------------------------------
(* Properties of the bot with its timer, checked under SpecRestart.          *)

\* the tap with query id cb was accepted as a candidate ("Processing...")
Accepted(cb) ==
    \E i \in 1..Len(answers[cb]) : answers[cb][i].kind = "Success"

\* a session was cancelled while joins were pending, and the tap with query
\* id cb came after that
AfterCancelledBatch(cb) == killedUpTo > 0 /\ cb > killedUpTo

\* C35: after a session was cancelled while joins were pending, every join
\* accepted for a session started later is resolved in the end (a position,
\* the win, or "filled"), unless that session is cancelled with the join
\* pending in its turn.
C35_NewSessionCollects ==
    \A cb \in 1..MaxTaps :
        (AfterCancelledBatch(cb) /\ Accepted(cb)) ~> (Resolved(cb) \/ cb <= killedUpTo)

\* a batch waits for a collecting session with no timer armed, and holds a
\* candidate accepted after the cancellation
StuckBatch ==
    /\ games.tag = "Collecting"
    /\ pendingJoins # NoBatch
    /\ timers = 0
    /\ \E i \in 1..Len(pendingJoins.players) :
          LET cb == pendingJoins.players[i].callbackQueryId
          IN  AfterCancelledBatch(cb) /\ Accepted(cb) /\ ~Resolved(cb)

----------------------------------------------------------------------------
(* Properties of the delete queue of Index.res, checked under SpecDelete.    *)

\* the task with message id k is in the queue
Queued(k) == \E i \in 1..Len(deleteQueue) : deleteQueue[i].messageId = k

\* the deleteMessage calls issued for message id k
CallsFor(k) == Cardinality({i \in 1..Len(deleteCalls) : deleteCalls[i].messageId = k})

----------------------------------------------------------------------------
(* Properties of what the chat is shown, checked under SpecAnnounce and      *)
(* SpecDisplay.                                                              *)

\* C38: a session has at most one winner announcement, and it is the
\* announcement of a Completed session: the sendMessage calls that announce a
\* winner of one session all come from one batch resolution.
C38_OneAnnouncementPerSession ==
    \A i, j \in 1..Len(shown) :
        (shown[i].kind = "announce" /\ shown[j].kind = "announce") =>
            /\ shown[i].tag = "Completed"
            /\ shown[i].session = shown[j].session => shown[i].task = shown[j].task

\* C39: the display edits of a session are attempted in the order of the
\* states they show: after an edit that shows k players none shows fewer, and
\* after the edit of /kill none shows the Collecting view with its join button.
C39_EditsInOrder ==
    \A i, j \in 1..Len(shown) :
        (i < j /\ shown[i].session = shown[j].session) =>
            /\ (shown[i].kind = "edit" /\ shown[j].kind = "edit") =>
                   shown[j].players >= shown[i].players
            /\ shown[i].kind = "kill" => shown[j].kind # "edit"

----------------------------------------------------------------------------
(* Properties of the delete queue of index.ts, checked under SpecTsDelete.   *)

\* C40: every deletion is issued against the conversation it was queued in:
\* each message id of a deleteMessages or deleteMessage call was queued with
\* the chat id of that call.
C40_DeletionInOwnChat ==
    \A k \in 1..Len(tsDeleteCalls) :
        \A m \in 1..Len(tsDeleteCalls[k].messageIds) :
            [chatId    |-> tsDeleteCalls[k].chatId,
             messageId |-> tsDeleteCalls[k].messageIds[m]] \in tsEnqueued

====
